---------------------------- MODULE Spec2Model ----------------------------
(***************************************************************************)
(* A model of the parsing core of powerpoint-extractor                     *)
(* (src/src/lib/pptParser.ts): the legacy PPT record walker with its text  *)
(* and blip handlers, the slide assembler, parsePPT with its catch block,  *)
(* and parsePPTX over an abstract ZIP archive.                             *)
(*                                                                         *)
(* Strings are sequences of UTF-16 code units (JavaScript's own view of a  *)
(* string); byte arrays are sequences of numbers 0..255.                   *)
(***************************************************************************)
EXTENDS Integers, Sequences, FiniteSets, TLC

(***************************************************************************)
(* Bounds of the model.                                                    *)
(***************************************************************************)
\* The input streams are the base streams below with up to MaxCut bytes
\* cut off their end and up to MaxPad junk bytes put before them.
MaxCut == 2
MaxPad == 1
\* The slide parts of a PPTX archive are named slide1.xml .. slide<MaxSlideNum>.xml.
MaxSlideNum == 3

(***************************************************************************)
(* Program constants.                                                      *)
(***************************************************************************)
maxDepth == 50
maxIterations == 100000
MaxRecLen == 100000000

RT_TextCharsAtom == 4000
RT_TextBytesAtom == 4008
RT_CString == 4026
RT_TextHeaderAtom == 3999
RT_Document == 1000
RT_Slide == 1006
RT_SlideListWithText == 4080
RT_MainMaster == 1016
RT_Notes == 1008
RT_Drawing == 1036
RT_List == 2000
OfficeArtSpContainer == 61444
OfficeArtClientTextbox == 61453
OfficeArtDgContainer == 61442
OfficeArtSpgrContainer == 61443
OfficeArtBlipJPEG == 61469
OfficeArtBlipJPEG2 == 61482
OfficeArtBlipPNG == 61470
OfficeArtBlipEMF == 61466
OfficeArtBlipWMF == 61467
OfficeArtBlipDIB == 61471

CONTAINER_TYPES ==
  { RT_Document, RT_Slide, RT_SlideListWithText, RT_MainMaster, RT_Notes,
    RT_Drawing, RT_List, OfficeArtSpContainer, OfficeArtClientTextbox,
    OfficeArtDgContainer, OfficeArtSpgrContainer,
    1010, 1035, 2005, 4057, 5000, 61440, 61441 }

(***************************************************************************)
(* Small helpers on sequences.                                             *)
(***************************************************************************)
Min(a, b) == IF a < b THEN a ELSE b
Max(a, b) == IF a > b THEN a ELSE b

\* s.slice(from, to) of JavaScript arrays and strings, 0-based, end exclusive,
\* both ends clamped to the length.
Slice(s, from, to) ==
  LET a == Min(Max(from, 0), Len(s))
      b == Min(Max(to, 0), Len(s))
  IN  IF a >= b THEN << >> ELSE SubSeq(s, a + 1, b)

StartsWith(s, p) == Len(s) >= Len(p) /\ SubSeq(s, 1, Len(p)) = p

EndsWith(s, p) == Len(s) >= Len(p) /\ SubSeq(s, Len(s) - Len(p) + 1, Len(s)) = p

AllIn(s, S) == \A i \in 1..Len(s) : s[i] \in S

\* String.prototype.toLowerCase on the code units the model uses (ASCII and
\* Latin-1 letters).
LowerChar(c) ==
  IF (c >= 65 /\ c <= 90) \/ (c >= 192 /\ c <= 222 /\ c # 215) THEN c + 32 ELSE c

toLowerCase(s) == [i \in 1..Len(s) |-> LowerChar(s[i])]

(***************************************************************************)
(* BinaryReader.  A reader is a view [off, off + len) of the stream bytes  *)
(* (BinaryReader.slice copies that range of its parent's data, which is    *)
(* never written afterwards) and a cursor pos relative to the view.        *)
(***************************************************************************)
\* A 32-bit value of 2^30 or more is kept as 2^30: the code only compares
\* such values with smaller limits or clamps them, TLC's integers are 32-bit.
SatU32 == 64 * 16777216

U16(b0, b1) == b0 + 256 * b1

U32(b0, b1, b2, b3) ==
  IF b3 >= 64 THEN SatU32 ELSE b0 + 256 * b1 + 65536 * b2 + 16777216 * b3

\* BinaryReader.seek
seek(len, pos) == Max(0, Min(pos, len))

\* BinaryReader.readUInt16LE at cursor p of data d: the value and the new cursor.
readUInt16LE(d, p) ==
  IF p + 2 > Len(d) THEN [val |-> 0, pos |-> p]
  ELSE [val |-> U16(d[p + 1], d[p + 2]), pos |-> p + 2]

\* BinaryReader.readUInt32LE
readUInt32LE(d, p) ==
  IF p + 4 > Len(d) THEN [val |-> 0, pos |-> p]
  ELSE [val |-> U32(d[p + 1], d[p + 2], d[p + 3], d[p + 4]), pos |-> p + 4]

\* BinaryReader.readBytes: the bytes and the new cursor.  With the cursor past
\* the end (after skip) the slice is empty and the cursor comes back to the end.
readBytes(d, p, n) ==
  LET end == Min(p + n, Len(d))
  IN  [bytes |-> Slice(d, p, end), pos |-> end]

\* The prefix of s before its first 0 (both decoders stop at a NUL).
UntilNul(s) ==
  LET nuls == {i \in 1..Len(s) : s[i] = 0}
  IN  IF nuls = {} THEN s
      ELSE SubSeq(s, 1, (CHOOSE i \in nuls : \A j \in nuls : i <= j) - 1)

\* The UTF-16LE code units of a byte array; an odd last byte is dropped.
Units(b) == [i \in 1..(Len(b) \div 2) |-> U16(b[2 * i - 1], b[2 * i])]

\* BinaryReader.readUTF16LE
readUTF16LE(d, p, n) ==
  LET r == readBytes(d, p, n)
  IN  [str |-> UntilNul(Units(r.bytes)), pos |-> r.pos]

\* The Windows-1252 table of readWindows1252 for the bytes 0x80-0x9F.
win1252Map ==
  ( 128 :> 8364 @@ 130 :> 8218 @@ 131 :> 402 @@ 132 :> 8222 @@ 133 :> 8230 @@
    134 :> 8224 @@ 135 :> 8225 @@ 136 :> 710 @@ 137 :> 8240 @@ 138 :> 352 @@
    139 :> 8249 @@ 140 :> 338 @@ 142 :> 381 @@ 145 :> 8216 @@ 146 :> 8217 @@
    147 :> 8220 @@ 148 :> 8221 @@ 149 :> 8226 @@ 150 :> 8211 @@ 151 :> 8212 @@
    152 :> 732 @@ 153 :> 8482 @@ 154 :> 353 @@ 155 :> 8250 @@ 156 :> 339 @@
    158 :> 382 @@ 159 :> 376 )

Win1252Char(b) == IF b \in DOMAIN win1252Map THEN win1252Map[b] ELSE b

\* BinaryReader.readWindows1252
readWindows1252(d, p, n) ==
  LET r == readBytes(d, p, n)
      z == UntilNul(r.bytes)
  IN  [str |-> [i \in 1..Len(z) |-> Win1252Char(z[i])], pos |-> r.pos]

(***************************************************************************)
(* String literals of the source, as code units.                           *)
(***************************************************************************)
\* "No Content Found"
Str_NoContentFound ==
  << 78, 111, 32, 67, 111, 110, 116, 101, 110, 116, 32, 70, 111, 117, 110, 100 >>

\* "Could not extract text from this presentation."
Str_CouldNotExtract ==
  << 67, 111, 117, 108, 100, 32, 110, 111, 116, 32, 101, 120, 116, 114, 97, 99, 116, 32, 116, 101, 120, 116, 32, 102, 114, 111, 109, 32, 116, 104, 105, 115, 32, 112, 114, 101, 115, 101, 110, 116, 97, 116, 105, 111, 110, 46 >>

\* "Error"
Str_Error ==
  << 69, 114, 114, 111, 114 >>

\* "Failed to parse this PowerPoint file."
Str_FailedToParse ==
  << 70, 97, 105, 108, 101, 100, 32, 116, 111, 32, 112, 97, 114, 115, 101, 32, 116, 104, 105, 115, 32, 80, 111, 119, 101, 114, 80, 111, 105, 110, 116, 32, 102, 105, 108, 101, 46 >>

\* "Unknown error"
Str_UnknownError ==
  << 85, 110, 107, 110, 111, 119, 110, 32, 101, 114, 114, 111, 114 >>

\* "PowerPoint Document stream not found"
Str_StreamNotFound ==
  << 80, 111, 119, 101, 114, 80, 111, 105, 110, 116, 32, 68, 111, 99, 117, 109, 101, 110, 116, 32, 115, 116, 114, 101, 97, 109, 32, 110, 111, 116, 32, 102, 111, 117, 110, 100 >>

\* "Slide "
Str_Slide ==
  << 83, 108, 105, 100, 101, 32 >>

\* isSystemString, the patterns /^X$/i, lower-cased: Root Entry, PowerPoint Document,
\* Current User, SummaryInformation, DocumentSummaryInformation, Pictures, Second level,
\* Third level, Fourth level, Fifth level, Arial, Times New Roman, Calibri, Tahoma,
\* Verdana, No Slide Title, Amin, Refren, Refren: (both of /^Refren:?$/i), METANOIA, Tema
SysExactI ==
  { << 114, 111, 111, 116, 32, 101, 110, 116, 114, 121 >>,
    << 112, 111, 119, 101, 114, 112, 111, 105, 110, 116, 32, 100, 111, 99, 117, 109, 101, 110, 116 >>,
    << 99, 117, 114, 114, 101, 110, 116, 32, 117, 115, 101, 114 >>,
    << 115, 117, 109, 109, 97, 114, 121, 105, 110, 102, 111, 114, 109, 97, 116, 105, 111, 110 >>,
    << 100, 111, 99, 117, 109, 101, 110, 116, 115, 117, 109, 109, 97, 114, 121, 105, 110, 102, 111, 114, 109, 97, 116, 105, 111, 110 >>,
    << 112, 105, 99, 116, 117, 114, 101, 115 >>,
    << 115, 101, 99, 111, 110, 100, 32, 108, 101, 118, 101, 108 >>,
    << 116, 104, 105, 114, 100, 32, 108, 101, 118, 101, 108 >>,
    << 102, 111, 117, 114, 116, 104, 32, 108, 101, 118, 101, 108 >>,
    << 102, 105, 102, 116, 104, 32, 108, 101, 118, 101, 108 >>,
    << 97, 114, 105, 97, 108 >>,
    << 116, 105, 109, 101, 115, 32, 110, 101, 119, 32, 114, 111, 109, 97, 110 >>,
    << 99, 97, 108, 105, 98, 114, 105 >>,
    << 116, 97, 104, 111, 109, 97 >>,
    << 118, 101, 114, 100, 97, 110, 97 >>,
    << 110, 111, 32, 115, 108, 105, 100, 101, 32, 116, 105, 116, 108, 101 >>,
    << 97, 109, 105, 110 >>,
    << 114, 101, 102, 114, 101, 110 >>,
    << 114, 101, 102, 114, 101, 110, 58 >>,
    << 109, 101, 116, 97, 110, 111, 105, 97 >>,
    << 116, 101, 109, 97 >> }

\* isSystemString, the patterns /^X/i, lower-cased: _VBA_PROJECT, theme/ and theme\
\* (of /^theme[\/\\]/i), slideLayout, slideMaster, Click to edit, Master title, Master text,
\* Master subtitle (of /^Master (title|text|subtitle)/i), tableStyles, Microsoft,
\* Presentacion, Presentation, Personalizad, Fuentes usadas
SysPrefixI ==
  { << 95, 118, 98, 97, 95, 112, 114, 111, 106, 101, 99, 116 >>,
    << 116, 104, 101, 109, 101, 47 >>,
    << 116, 104, 101, 109, 101, 92 >>,
    << 115, 108, 105, 100, 101, 108, 97, 121, 111, 117, 116 >>,
    << 115, 108, 105, 100, 101, 109, 97, 115, 116, 101, 114 >>,
    << 99, 108, 105, 99, 107, 32, 116, 111, 32, 101, 100, 105, 116 >>,
    << 109, 97, 115, 116, 101, 114, 32, 116, 105, 116, 108, 101 >>,
    << 109, 97, 115, 116, 101, 114, 32, 116, 101, 120, 116 >>,
    << 109, 97, 115, 116, 101, 114, 32, 115, 117, 98, 116, 105, 116, 108, 101 >>,
    << 116, 97, 98, 108, 101, 115, 116, 121, 108, 101, 115 >>,
    << 109, 105, 99, 114, 111, 115, 111, 102, 116 >>,
    << 112, 114, 101, 115, 101, 110, 116, 97, 99, 105, 111, 110 >>,
    << 112, 114, 101, 115, 101, 110, 116, 97, 116, 105, 111, 110 >>,
    << 112, 101, 114, 115, 111, 110, 97, 108, 105, 122, 97, 100 >>,
    << 102, 117, 101, 110, 116, 101, 115, 32, 117, 115, 97, 100, 97, 115 >> }

\* isSystemString, the case-sensitive patterns /^X/: [Content_Types], _rels/ and _rels\,
\* drs/ and drs\, ppt/ and ppt\, PK
SysPrefix ==
  { << 91, 67, 111, 110, 116, 101, 110, 116, 95, 84, 121, 112, 101, 115, 93 >>,
    << 95, 114, 101, 108, 115, 47 >>,
    << 95, 114, 101, 108, 115, 92 >>,
    << 100, 114, 115, 47 >>,
    << 100, 114, 115, 92 >>,
    << 112, 112, 116, 47 >>,
    << 112, 112, 116, 92 >>,
    << 80, 75 >> }

\* isSystemString and isValidText: /\.xml$/i and /\.rels$/i, lower-cased
SuffixI ==
  { << 46, 120, 109, 108 >>,
    << 46, 114, 101, 108, 115 >> }

\* isSystemString: /^Rectangle \d+$/i, /^Text Box \d+$/i, /^WordArt \d+$/i: the part before
\* the digits, lower-cased
SysNumberedI ==
  { << 114, 101, 99, 116, 97, 110, 103, 108, 101, 32 >>,
    << 116, 101, 120, 116, 32, 98, 111, 120, 32 >>,
    << 119, 111, 114, 100, 97, 114, 116, 32 >> }

\* isSystemString: the text before the digits of /^___PPT\d*$/
Str_PPT ==
  << 95, 95, 95, 80, 80, 84 >>

\* isValidText, the patterns /^PK/, /^\[Content_Types\]/, /^_rels\//, /^drs\//, /^ppt\//
GarbagePrefix ==
  { << 80, 75 >>,
    << 91, 67, 111, 110, 116, 101, 110, 116, 95, 84, 121, 112, 101, 115, 93 >>,
    << 95, 114, 101, 108, 115, 47 >>,
    << 100, 114, 115, 47 >>,
    << 112, 112, 116, 47 >> }

(***************************************************************************)
(* Text sanitization and validation.                                       *)
(***************************************************************************)
\* A regular expression with the i flag and an ASCII pattern matches a code
\* unit by its ASCII case: no code unit of 128 or more folds to an ASCII one.
AsciiLower(c) == IF c >= 65 /\ c <= 90 THEN c + 32 ELSE c

FoldAscii(s) == [i \in 1..Len(s) |-> AsciiLower(s[i])]

\* The white space of String.prototype.trim and of \s.
IsWhitespace(c) ==
  \/ c \in {9, 10, 11, 12, 13, 32, 160, 5760, 8232, 8233, 8239, 8287, 12288, 65279}
  \/ (c >= 8192 /\ c <= 8202)

\* String.prototype.trim
trim(s) ==
  LET n == Len(s)
  IN  IF \A i \in 1..n : IsWhitespace(s[i]) THEN << >>
      ELSE SubSeq(s,
             CHOOSE i \in 1..n :
               ~IsWhitespace(s[i]) /\ \A j \in 1..(i - 1) : IsWhitespace(s[j]),
             CHOOSE i \in 1..n :
               ~IsWhitespace(s[i]) /\ \A j \in (i + 1)..n : IsWhitespace(s[j]))

\* .replace(/\r\n/g, '\n')
RECURSIVE ReplaceCRLF(_)
ReplaceCRLF(s) ==
  IF s = << >> THEN << >>
  ELSE IF Len(s) >= 2 /\ s[1] = 13 /\ s[2] = 10
       THEN << 10 >> \o ReplaceCRLF(SubSeq(s, 3, Len(s)))
       ELSE << s[1] >> \o ReplaceCRLF(Tail(s))

\* .replace(/x/g, y) for single code units x and y
ReplaceChar(s, x, y) == [i \in 1..Len(s) |-> IF s[i] = x THEN y ELSE s[i]]

\* The class [\x00-\x08\x0B\x0C\x0E-\x1F] that cleanText removes.
IsStrippedControl(c) == (c >= 0 /\ c <= 8) \/ c = 11 \/ c = 12 \/ (c >= 14 /\ c <= 31)

StripControls(s) == SelectSeq(s, LAMBDA c : ~IsStrippedControl(c))

\* cleanText with trim() called first instead of last.
cleanTextTrimFirst(text) ==
  ReplaceChar(ReplaceChar(StripControls(ReplaceChar(ReplaceCRLF(trim(text)), 13, 10)),
                          13, 10), 9, 32)

cleanText(text) ==
  trim(ReplaceChar(ReplaceChar(StripControls(ReplaceChar(ReplaceCRLF(text), 13, 10)),
                               13, 10), 9, 32))

InRange(c, lo, hi) == c >= lo /\ c <= hi

\* The character classes of isValidText, in the order of its else-if chain.
IsLatinClass(c) ==
  InRange(c, 65, 90) \/ InRange(c, 97, 122) \/ InRange(c, 192, 255)
    \/ InRange(c, 256, 383) \/ InRange(c, 384, 591)

IsDigitClass(c) == InRange(c, 48, 57)

IsSpaceClass(c) == c \in {32, 10, 13, 9}

IsPunctuationClass(c) ==
  InRange(c, 33, 47) \/ InRange(c, 58, 64) \/ InRange(c, 91, 96) \/ InRange(c, 123, 126)
    \/ c \in {8216, 8217, 8220, 8221, 8211, 8212, 8230}

IsEarlierClass(c) ==
  IsLatinClass(c) \/ IsDigitClass(c) \/ IsSpaceClass(c) \/ IsPunctuationClass(c)

IsControlClass(c) == ~IsEarlierClass(c) /\ (c < 32 \/ InRange(c, 127, 159))

\* Cyrillic and Greek are counted in latin.
IsCyrillicOrGreek(c) ==
  ~IsEarlierClass(c) /\ ~IsControlClass(c) /\ (InRange(c, 1024, 1279) \/ InRange(c, 880, 1023))

IsHighUnicode(c) ==
  ~IsEarlierClass(c) /\ ~IsControlClass(c) /\ ~IsCyrillicOrGreek(c) /\ c > 8192

\* /^[lo-hi]+$/ on a non-empty string
AllInRange(s, lo, hi) == s # << >> /\ \A i \in 1..Len(s) : InRange(s[i], lo, hi)

\* garbagePatterns.some(p => p.test(text))
MatchesGarbagePattern(text) ==
  \/ (text # << >> /\ \A i \in 1..Len(text) :
         InRange(text[i], 0, 31) \/ InRange(text[i], 127, 159))
  \/ AllInRange(text, 3840, 4095)
  \/ (AllInRange(text, 7680, 7935) /\ Len(text) <= 3)
  \/ AllInRange(text, 8448, 8527)
  \/ AllInRange(text, 12272, 12283)
  \/ AllInRange(text, 44032, 55203)
  \/ AllInRange(text, 19968, 40869)
  \/ AllInRange(text, 3585, 3675)
  \/ AllInRange(text, 1536, 1791)
  \/ AllInRange(text, 1488, 1514)
  \/ (AllInRange(text, 256, 383) /\ Len(text) <= 4)
  \/ AllInRange(text, 4352, 4607)
  \/ AllInRange(text, 12592, 12687)
  \/ AllInRange(text, 65280, 65519)
  \/ AllInRange(text, 11264, 11310)
  \/ AllInRange(text, 57344, 63743)
  \/ \E p \in GarbagePrefix : StartsWith(text, p)
  \/ \E p \in SuffixI : EndsWith(FoldAscii(text), p)

\* The share of exotic characters above which isValidText rejects:
\* highUnicode / total > 0.2, that is 5 * highUnicode > total.
TooMuchHighUnicode(highUnicode, total) == highUnicode > 0 /\ 5 * highUnicode > total

isValidText(text) ==
  LET latin == Cardinality({i \in 1..Len(text) : IsLatinClass(text[i])})
                 + Cardinality({i \in 1..Len(text) : IsCyrillicOrGreek(text[i])})
      digits == Cardinality({i \in 1..Len(text) : IsDigitClass(text[i])})
      punctuation == Cardinality({i \in 1..Len(text) : IsPunctuationClass(text[i])})
      highUnicode == Cardinality({i \in 1..Len(text) : IsHighUnicode(text[i])})
      control == Cardinality({i \in 1..Len(text) : IsControlClass(text[i])})
      total == Len(text)
      textChars == latin + digits + punctuation
  IN  /\ Len(text) >= 2
      /\ \E i \in 1..Len(text) : ~(IsWhitespace(text[i]) \/ InRange(text[i], 0, 31))
      /\ 2 * textChars >= total
      /\ latin >= 1
      /\ ~TooMuchHighUnicode(highUnicode, total)
      /\ control = 0
      /\ ~MatchesGarbagePattern(text)

AllDigits(s) == \A i \in 1..Len(s) : InRange(s[i], 48, 57)

isSystemString(text) ==
  LET t == trim(text)
      f == FoldAscii(t)
  IN  \/ f \in SysExactI
      \/ \E p \in SysPrefixI : StartsWith(f, p)
      \/ \E p \in SysPrefix : StartsWith(t, p)
      \/ \E p \in SuffixI : EndsWith(f, p)
      \/ (StartsWith(t, Str_PPT) /\ AllDigits(SubSeq(t, Len(Str_PPT) + 1, Len(t))))
      \/ \E p \in SysNumberedI :
           StartsWith(f, p) /\ Len(f) > Len(p) /\ AllDigits(SubSeq(f, Len(p) + 1, Len(f)))

(***************************************************************************)
(* Slide assembly (createSlides) and word counting.                        *)
(***************************************************************************)
\* The decimal digits of a number, as `${n}` writes it.
RECURSIVE Decimal(_)
Decimal(n) == IF n < 10 THEN << 48 + n >> ELSE Decimal(n \div 10) \o << 48 + (n % 10) >>

\* A SlideContent of the PPT path: notes is '' and shapes, images and tables are [].
NewSlide(n, title, content) ==
  [slideNumber |-> n, title |-> title, textContent |-> content, notes |-> << >>]

\* The keys from the greatest down.
RECURSIVE KeysDescending(_)
KeysDescending(S) ==
  IF S = {} THEN << >>
  ELSE LET m == CHOOSE x \in S : \A y \in S : x >= y
       IN  << m >> \o KeysDescending(S \ {m})

\* Array.from(keys).sort((a, b) => a - b)
RECURSIVE SortedKeys(_)
SortedKeys(S) ==
  IF S = {} THEN << >>
  ELSE LET m == CHOOSE x \in S : \A y \in S : x <= y
       IN  << m >> \o SortedKeys(S \ {m})

\* The loop of createSlides over the sorted bucket keys.
RECURSIVE BucketSlides(_, _, _)
BucketSlides(keys, buckets, slides) ==
  IF keys = << >> THEN slides
  ELSE LET list == buckets[Head(keys)]
       IN  IF Len(list) = 0 THEN BucketSlides(Tail(keys), buckets, slides)
           ELSE BucketSlides(Tail(keys), buckets,
                  Append(slides,
                    NewSlide(Len(slides) + 1,
                             IF list[1] # << >> THEN list[1]
                             ELSE Str_Slide \o Decimal(Len(slides) + 1),
                             Tail(list))))

\* The texts with no occurrence taken out.
KeepAll(ts, seen) == ts

\* texts.filter(...) with the seen set: the first occurrence of each text,
\* compared lower-cased and trimmed.
RECURSIVE Dedupe(_, _)
Dedupe(ts, seen) ==
  IF ts = << >> THEN << >>
  ELSE LET normalized == trim(toLowerCase(Head(ts)))
       IN  IF normalized \in seen THEN Dedupe(Tail(ts), seen)
           ELSE << Head(ts) >> \o Dedupe(Tail(ts), seen \cup {normalized})

\* The number of content entries at which the fallback starts a new slide.
SlideContentLimit == 6
\* A text shorter than this may become the title of a fallback slide.
TitleMaxLen == 100

\* The grouping loop of the fallback: the slides pushed so far and the
\* slide being filled.
RECURSIVE GroupTexts(_, _, _)
GroupTexts(ts, slides, cur) ==
  IF ts = << >> THEN [slides |-> slides, cur |-> cur]
  ELSE LET text == Head(ts)
           filled == IF cur.title = << >> /\ Len(text) < TitleMaxLen
                     THEN [cur EXCEPT !.title = text]
                     ELSE [cur EXCEPT !.textContent = Append(@, text)]
       IN  IF Len(filled.textContent) >= SlideContentLimit
           THEN GroupTexts(Tail(ts), Append(slides, filled),
                           NewSlide(Len(slides) + 2, << >>, << >>))
           ELSE GroupTexts(Tail(ts), slides, filled)

\* slides.forEach: renumber and name the untitled slides.
Renumbered(slides) ==
  [i \in 1..Len(slides) |->
     [slides[i] EXCEPT !.slideNumber = i,
                       !.title = IF @ = << >> THEN Str_Slide \o Decimal(i) ELSE @]]

FallbackSlides(ts) ==
  LET g == GroupTexts(Dedupe(ts, {}), << >>, NewSlide(1, << >>, << >>))
      all == IF g.cur.title # << >> \/ Len(g.cur.textContent) > 0
             THEN Append(g.slides, g.cur) ELSE g.slides
  IN  Renumbered(all)

\* The slides createSlides returns when there is no text at all.
NoContentNone == << >>

NoContentSlides == << NewSlide(1, Str_NoContentFound, << Str_CouldNotExtract >>) >>

\* createSlides(texts, slideTexts); slideTexts is a function from the bucket
\* keys to the bucket lists.
createSlides(ts, buckets) ==
  LET fromBuckets == BucketSlides(SortedKeys(DOMAIN buckets), buckets, << >>)
  IN  IF DOMAIN buckets # {} /\ Len(fromBuckets) > 0 THEN fromBuckets
      ELSE IF Len(ts) = 0 THEN NoContentSlides
      ELSE FallbackSlides(ts)

\* text.split(/\s+/).filter(w => w.length > 0).length: the number of maximal
\* runs of non-white-space.
countWords(text) ==
  Cardinality({i \in 1..Len(text) :
                 ~IsWhitespace(text[i]) /\ (i = 1 \/ IsWhitespace(text[i - 1]))})

RECURSIVE SumSeq(_)
SumSeq(s) == IF s = << >> THEN 0 ELSE Head(s) + SumSeq(Tail(s))

\* The word count loop of parsePPT.
WordCount(slides) ==
  SumSeq([i \in 1..Len(slides) |->
            countWords(slides[i].title)
              + SumSeq([j \in 1..Len(slides[i].textContent) |->
                          countWords(slides[i].textContent[j])])])

(***************************************************************************)
(* arrayToBase64: the base64 text of a byte array, as code units.          *)
(***************************************************************************)
Base64Char(v) ==
  IF v < 26 THEN 65 + v
  ELSE IF v < 52 THEN 97 + (v - 26)
  ELSE IF v < 62 THEN 48 + (v - 52)
  ELSE IF v = 62 THEN 43 ELSE 47

\* btoa over the bytes: the k-th character of the text comes from the group
\* of three bytes it belongs to; "=" stands for a byte the array lacks.
arrayToBase64(arr) ==
  LET n == Len(arr)
      byte(i) == IF i <= n THEN arr[i] ELSE 0
      unit(k) ==
        LET g == (k - 1) \div 4
            r == (k - 1) % 4
            b1 == byte(3 * g + 1)
            b2 == byte(3 * g + 2)
            b3 == byte(3 * g + 3)
        IN  IF r = 0 THEN Base64Char(b1 \div 4)
            ELSE IF r = 1 THEN Base64Char((b1 % 4) * 16 + b2 \div 16)
            ELSE IF r = 2
                 THEN IF 3 * g + 2 > n THEN 61
                      ELSE Base64Char((b2 % 16) * 4 + b3 \div 64)
            ELSE IF 3 * g + 3 > n THEN 61 ELSE Base64Char(b3 % 64)
  IN  [k \in 1..(4 * ((n + 2) \div 3)) |-> unit(k)]

(***************************************************************************)
(* Input streams: records written as [MS-PPT] lays them out.               *)
(***************************************************************************)
LE16(n) == << n % 256, n \div 256 >>
LE32(n) == << n % 256, (n \div 256) % 256, (n \div 65536) % 256, n \div 16777216 >>

\* A record whose header declares declLen bytes and whose body is body.
Rec(verInst, type, declLen, body) == LE16(verInst) \o LE16(type) \o LE32(declLen) \o body

RECURSIVE Utf16Bytes(_)
Utf16Bytes(s) == IF s = << >> THEN << >> ELSE LE16(Head(s)) \o Utf16Bytes(Tail(s))

TextBytes(s) == Rec(0, RT_TextBytesAtom, Len(s), s)
TextChars(s) == Rec(0, RT_TextCharsAtom, 2 * Len(s), Utf16Bytes(s))
CString(s) == Rec(0, RT_CString, 2 * Len(s), Utf16Bytes(s))
Container(type, body) == Rec(15, type, Len(body), body)
SlideRec(body) == Container(RT_Slide, body)

\* n containers inside each other; the innermost holds inner and is followed,
\* inside its parent, by after.
\* (The n - 1 outer headers, each declaring 8 bytes more than the one inside
\* it, and then the innermost container with what follows it.)
DeepNest(n, inner, after) ==
  LET core == Container(RT_List, inner) \o after
      header(k) == Rec(15, RT_List, Len(core) + 8 * (k - 2), << >>)
  IN  [i \in 1..(8 * (n - 1)) |-> header(n - ((i - 1) \div 8))[((i - 1) % 8) + 1]]
        \o core

T_Aa == << 65, 97 >>
T_Bb == << 66, 98 >>
T_Cc == << 67, 99 >>
T_Arial == << 65, 114, 105, 97, 108 >>
T_Two == << 65, 32, 32, 98 >>
T_Q3Results == << 81, 51, 32, 82, 101, 115, 117, 108, 116, 115 >>
T_Agenda == << 65, 103, 101, 110, 100, 97 >>

BaseStreams ==
  << \* 1: an empty stream
     << >>,
     \* 2: one text atom outside every slide
     TextBytes(T_Aa),
     \* 3: two slides, ANSI and Unicode text, inside a document container
     Container(RT_Document, SlideRec(TextBytes(T_Aa) \o TextChars(T_Bb))
                              \o SlideRec(TextChars(T_Cc) \o CString(T_Arial))),
     \* 4: a slide holding a text, a nested slide and a text after it
     SlideRec(TextBytes(T_Aa) \o SlideRec(TextBytes(T_Bb)) \o TextBytes(T_Cc)),
     \* 5: a text atom whose header declares 2 bytes more than the stream holds
     Rec(0, RT_TextBytesAtom, 5, << 65, 97, 98 >>),
     \* 6: a slide whose header declares 8 bytes and whose body is missing
     Rec(15, RT_Slide, 8, << >>),
     \* 7: a record length of 0xFFFFFFFF, then a text
     Rec(0, 0, 0, << >>) \o << 0, 0, 0, 0, 255, 255, 255, 255 >> \o CString(T_Two),
     \* 8: a text header atom (skipped), a text, a slide with no accepted text
     Rec(0, RT_TextHeaderAtom, 4, << 0, 0, 0, 0 >>) \o TextBytes(T_Aa)
       \o SlideRec(TextBytes(<< 49, 50 >>)),
     \* 9: a JPEG blip of 17 + 101 bytes and a PNG blip of 17 + 3 bytes
     Rec(0, OfficeArtBlipJPEG, 118, [i \in 1..118 |-> i])
       \o Rec(0, OfficeArtBlipPNG, 20, [i \in 1..20 |-> 7]),
     \* 10: maxDepth + 1 containers around a text, a text after the innermost
     DeepNest(maxDepth + 1, TextBytes(T_Aa), TextBytes(T_Bb)),
     \* 11: an ANSI text "Q3 Results" and a Unicode text "Agenda"
     TextBytes(T_Q3Results) \o TextChars(T_Agenda),
     \* 12: a JPEG blip that declares 17 + 105 bytes and holds 17 + 103
     Rec(0, OfficeArtBlipJPEG, 122, [i \in 1..120 |-> (i * 7) % 256]),
     \* 13: an EMF blip and a DIB blip, each a 16-byte uid and 101 bytes
     Rec(0, OfficeArtBlipEMF, 117, [i \in 1..117 |-> 1])
       \o Rec(0, OfficeArtBlipDIB, 117, [i \in 1..117 |-> 2]) >>

\* p junk bytes (0xFF) put before a stream.
Padded(s, p) == [i \in 1..p |-> 255] \o s

CutEnd(s, c) == SubSeq(s, 1, Len(s) - Min(c, Len(s)))

\* A document container that ends with the header of a slide whose 8-byte
\* body lies outside it, then a text: the invocation for the slide's body
\* reads from an empty view and stops at maxIterations.
StuckThenText ==
  Container(RT_Document, Rec(15, RT_Slide, 8, << >>)) \o TextBytes(T_Bb)

\* "abc", U+4E2D, "d": one character of five is of the high-Unicode class.
T_OneInFive == << 97, 98, 99, 20013, 100 >>

\* A text before every slide, then a slide of two texts.
TextThenSlide == TextBytes(T_Aa) \o SlideRec(TextBytes(T_Bb) \o TextChars(T_Cc))

Streams ==
  { Padded(CutEnd(BaseStreams[b], c), p) :
      b \in 1..Len(BaseStreams), c \in 0..MaxCut, p \in 0..MaxPad }
    \cup {StuckThenText, TextThenSlide, TextChars(T_OneInFive)}

(***************************************************************************)
(* PPTX archives.  JSZip and DOMParser are libraries: an archive is what   *)
(* they hand to the code.  valid: JSZip.loadAsync resolves; slideNums: the *)
(* n of the parts ppt/slides/slide{n}.xml; blank: the slide parts whose    *)
(* text is empty; app: docProps/app.xml, if present, with its <Slides> and *)
(* <Words> counts; media: the files of the folder ppt/media, each with its  *)
(* path relative to the folder and its bytes.                              *)
(***************************************************************************)
NoAppXml == [present |-> FALSE, slides |-> 0, words |-> 0]

AppXmls ==
  {NoAppXml} \cup { [present |-> TRUE, slides |-> s, words |-> w] :
                      s \in 0..MaxSlideNum, w \in {0, 5} }

\* "image1.PNG", "clip.mp4", "notes"
MediaFolders ==
  { << >>,
    << [name |-> << 105, 109, 97, 103, 101, 49, 46, 80, 78, 71 >>, content |-> << 137, 80, 78, 71 >>] >>,
    << [name |-> << 99, 108, 105, 112, 46, 109, 112, 52 >>, content |-> << >>],
       [name |-> << 110, 111, 116, 101, 115 >>, content |-> << 255 >>] >> }

NoZip ==
  [valid |-> FALSE, slideNums |-> {}, blank |-> {}, app |-> NoAppXml, media |-> << >>]

ZipFiles ==
  {NoZip} \cup { [valid |-> TRUE, slideNums |-> S, blank |-> B, app |-> a,
                    media |-> m] :
                   m \in MediaFolders,
                   S \in SUBSET (1..MaxSlideNum), B \in SUBSET (1..MaxSlideNum),
                   a \in AppXmls }

\* The a:t runs of slide n, in document order: a title shape and a body.
T_Hello == << 72, 101, 108, 108, 111 >>
T_World == << 87, 111, 114, 108, 100 >>

SlideXml(n) ==
  << [text |-> T_Hello \o Decimal(n), inTitle |-> TRUE],
     [text |-> T_World, inTitle |-> FALSE] >>

(***************************************************************************)
(* parsePropertyStream: the \x05SummaryInformation stream.                 *)
(***************************************************************************)
\* A map, or a partial object, with no entry.
EmptyMap == [k \in {} |-> << >>]

\* reader.skip(28)
PropertyHeaderSkip == 28

\* The property entries: numProps pairs of id and offset.
RECURSIVE ReadPropEntries(_, _, _)
ReadPropEntries(d, pos, n) ==
  IF n = 0 THEN << >>
  ELSE LET id == readUInt32LE(d, pos)
           offset == readUInt32LE(d, id.pos)
       IN  << [id |-> id.val, offset |-> offset.val] >>
             \o ReadPropEntries(d, offset.pos, n - 1)

\* The switch with a default case that sets the subject.
PropertyFieldOrSubject(id) ==
  CASE id = 2 -> "title"
    [] id = 4 -> "creator"
    [] id = 5 -> "keywords"
    [] id = 6 -> "description"
    [] id = 8 -> "lastModifiedBy"
    [] id = 9 -> "revision"
    [] id = 18 -> "application"
    [] OTHER -> "subject"

\* switch (prop.id): the field of the metadata a property sets.
PropertyField(id) ==
  CASE id = 2 -> "title"
    [] id = 3 -> "subject"
    [] id = 4 -> "creator"
    [] id = 5 -> "keywords"
    [] id = 6 -> "description"
    [] id = 8 -> "lastModifiedBy"
    [] id = 9 -> "revision"
    [] id = 18 -> "application"
    [] OTHER -> "none"

\* The loop over the property entries.  reader.seek(sectionOffset + offset)
\* clamps to the length; the two terms are clamped first (the same
\* position, without a sum beyond 32-bit integers).
RECURSIVE ReadPropValues(_, _, _, _)
ReadPropValues(d, sectionOffset, props, metadata) ==
  IF props = << >> THEN metadata
  ELSE LET prop == Head(props)
           at == seek(Len(d), Min(sectionOffset, Len(d)) + Min(prop.offset, Len(d)))
           type == readUInt32LE(d, at)
           len == readUInt32LE(d, type.pos)
           str == IF type.val = 31 THEN readUTF16LE(d, len.pos, len.val * 2).str
                  ELSE readWindows1252(d, len.pos, len.val).str
           set == /\ type.val \in {30, 31}
                  /\ len.val > 0 /\ len.val < 10000
                  /\ PropertyField(prop.id) # "none"
       IN  ReadPropValues(d, sectionOffset, Tail(props),
             IF set THEN (PropertyField(prop.id) :> trim(str)) @@ metadata
             ELSE metadata)

\* parsePropertyStream(data): the fields it sets, as a function from their
\* names.
parsePropertyStream(data) ==
  LET numSections == readUInt32LE(data, PropertyHeaderSkip)
      sectionOffset == readUInt32LE(data, numSections.pos + 16)
      section == seek(Len(data), sectionOffset.val)
      size == readUInt32LE(data, section)
      numProps == readUInt32LE(data, size.pos)
  IN  IF numSections.val = 0 \/ numSections.val > 100 THEN EmptyMap
      ELSE IF numProps.val > 1000 THEN EmptyMap
      ELSE ReadPropValues(data, sectionOffset.val,
                          ReadPropEntries(data, numProps.pos, numProps.val), EmptyMap)

\* The summary streams of the model.  "Alice" and "Deck".
T_Alice == << 65, 108, 105, 99, 101 >>
T_Deck == << 68, 101, 99, 107 >>

\* The format identifier of the SummaryInformation property set.
FMTID_SummaryInformation ==
  << 224, 133, 159, 242, 249, 79, 104, 16, 171, 145, 8, 0, 43, 39, 179, 217 >>

\* A VT_LPWSTR value: type 0x1F, the count of characters, the characters and
\* a terminating 0.
LPWSTR(s) == LE32(31) \o LE32(Len(s) + 1) \o Utf16Bytes(s) \o << 0, 0 >>

\* A VT_LPSTR value: type 0x1E, the count of bytes, the bytes and a 0.
LPSTR(s) == LE32(30) \o LE32(Len(s) + 1) \o s \o << 0 >>

\* A section with the properties 4 (a VT_LPWSTR) and 2 (a VT_LPSTR).
SummarySection(creator, title) ==
  LET v1 == LPWSTR(creator)
      v2 == LPSTR(title)
  IN  LE32(24 + Len(v1) + Len(v2)) \o LE32(2)
        \o LE32(4) \o LE32(24) \o LE32(2) \o LE32(24 + Len(v1))
        \o v1 \o v2

\* A property set stream whose header has headerLen bytes: the header, the
\* number of property sets, the FMTID, the offset of the section, the section.
SummaryStream(headerLen, creator, title) ==
  << 254, 255, 0, 0 >> \o [i \in 1..(headerLen - 4) |-> 0]
    \o LE32(1) \o FMTID_SummaryInformation \o LE32(headerLen + 24)
    \o SummarySection(creator, title)

\* A property set stream with a header of 28 bytes and one section holding
\* the given properties (id and value), the values in the order of the
\* entries.
PropertySetStream(props) ==
  LET n == Len(props)
      before(i) == SumSeq([j \in 1..(i - 1) |-> Len(props[j].value)])
      entry(i) == LE32(props[i].id) \o LE32(8 + 8 * n + before(i))
      bytesOf(k) ==
        LET i == CHOOSE x \in 1..n : before(x) < k /\ k <= before(x + 1)
        IN  props[i].value[k - before(i)]
  IN  << 254, 255, 0, 0 >> \o [i \in 1..24 |-> 0]
        \o LE32(1) \o FMTID_SummaryInformation \o LE32(52)
        \o LE32(8 + 8 * n + before(n + 1)) \o LE32(n)
        \o [k \in 1..(8 * n) |-> entry((k + 7) \div 8)[((k - 1) % 8) + 1]]
        \o [k \in 1..before(n + 1) |-> bytesOf(k)]

\* A section with no property.
NoProperties == PropertySetStream(<< >>)

\* Property 7 (not a field of the metadata) as a VT_LPSTR, property 2 as a
\* VT_I4 (type 3, the number 77) and property 4 as the VT_LPWSTR "Alice".
MixedProperties ==
  PropertySetStream(<< [id |-> 7, value |-> LPSTR(T_Deck)],
                       [id |-> 2, value |-> LE32(3) \o LE32(77)],
                       [id |-> 4, value |-> LPWSTR(T_Alice)] >>)

\* No stream (or an empty one: parsePropertyStream sets nothing).
NoSummary == << >>

SummaryStreams ==
  { NoSummary, NoProperties, MixedProperties,
    \* the layout of [MS-OLEPS]: a header of 24 bytes
    SummaryStream(24, T_Alice, T_Deck),
    \* a header of 28 bytes
    SummaryStream(28, T_Alice, T_Deck) }

(***************************************************************************)
(* State.                                                                  *)
(***************************************************************************)
VARIABLES
  fileType,      \* "ppt" or "pptx": the parser the dispatcher calls
  container,     \* what CFB.read makes of the file: "notCFB", "noStream", "ok"
  cfbError,      \* whether what CFB.read throws on the file is an Error
  bytes,         \* the PowerPoint Document stream (the raw file when not a CFB)
  summary,       \* the \x05SummaryInformation stream of a ppt file
  zip,           \* the archive of a pptx file
  pending,       \* the files of the other parsePPT calls that wait at
                 \* await file.arrayBuffer()
  history,       \* the parsePPT calls that have returned: file and result
  pc,            \* the position of the parser
  stack,         \* the parseRecords invocations, innermost last
  currentSlide,  \* the counter of parsePPTStream
  texts,         \* result.texts
  slideTexts,    \* result.slideTexts: bucket key -> list
  images,        \* result.images
  thrown,        \* the value thrown inside the try block of parsePPT
  outcome,       \* "pending", "returned" or "rejected" (the promise)
  presentation,  \* the ExtractedPresentation returned
  obs,           \* what the last parseRecords iteration did (observation only)
  files,         \* App: the names of the files listed
  extractedData, \* App: the presentations extracted
  processingFile, \* App: the name of the file being parsed, << >> for null
  error,         \* App: the name of the file of the error message, << >> for null
  processFilesCall \* App: the processFiles call that waits for a parser

vars == << fileType, container, cfbError, bytes, summary, zip, pending, history, pc,
           stack, currentSlide, texts, slideTexts, images, thrown, outcome,
           presentation, obs, files, extractedData, processingFile, error,
           processFilesCall >>

appVars == << files, extractedData, processingFile, error, processFilesCall >>

\* No processFiles call is waiting.
NoCall == [newFiles |-> << >>, at |-> 0, extractedData |-> << >>]

\* The state of AppContent before any file is chosen.
AppIdle ==
  /\ files = << >>
  /\ extractedData = << >>
  /\ processingFile = << >>
  /\ error = << >>
  /\ processFilesCall = NoCall

walkVars == << stack, currentSlide, texts, slideTexts, images, obs >>
fileVars == << fileType, container, cfbError, bytes, summary, zip, pending, history >>

NoObs == [kind |-> "none", startPos |-> 0, hdrPos |-> 0, recType |-> 0, recLen |-> 0,
          endPos |-> 0, newPos |-> 0, depth |-> 0, encl |-> 0, bucket |-> 0,
          accepted |-> FALSE, iterations |-> 0]

NoThrow == [raised |-> FALSE, isError |-> FALSE, message |-> << >>]

NoPresentation ==
  [fileType |-> "none", metadata |-> [totalSlides |-> 0, totalWords |-> 0],
   slides |-> << >>, media |-> << >>, customProperties |-> EmptyMap]

\* The document streams that come with every summary stream of the model.
SummaryCarriers == { BaseStreams[b] : b \in {1, 3, 11} }

\* The file of a parsePPT call: what the call reads of it.
File(c, e, b, s) == [container |-> c, cfbError |-> e, bytes |-> b, summary |-> s]

ThisFile == File(container, cfbError, bytes, summary)

\* The files of the calls that run side by side: two texts outside every
\* slide with a summary stream, two slides with texts, a JPEG blip, and a
\* file that is no compound file.
CallFiles ==
  { File("ok", TRUE, BaseStreams[11], SummaryStream(28, T_Alice, T_Deck)),
    File("ok", TRUE, BaseStreams[3], NoSummary),
    File("ok", TRUE, BaseStreams[9], NoSummary),
    File("notCFB", TRUE, BaseStreams[11], NoSummary) }

\* The number of parsePPT calls that run side by side.
MaxCalls == 3

Init ==
  /\ fileType \in {"ppt", "pptx"}
  /\ IF fileType = "ppt"
     THEN /\ container \in {"notCFB", "noStream", "ok"}
          /\ cfbError \in IF container = "notCFB" THEN BOOLEAN ELSE {TRUE}
          /\ bytes \in Streams
          /\ summary \in IF container # "notCFB" /\ bytes \in SummaryCarriers
                          THEN SummaryStreams ELSE {NoSummary}
          /\ zip = NoZip
          /\ pending \in IF ThisFile \in CallFiles
                          THEN UNION { [1..n -> CallFiles] : n \in 0..(MaxCalls - 1) }
                          ELSE { << >> }
     ELSE /\ container = "notCFB"
          /\ cfbError = TRUE
          /\ bytes = << >>
          /\ summary = NoSummary
          /\ zip \in { z \in ZipFiles : z.blank \subseteq z.slideNums }
          /\ pending = << >>
  /\ history = << >>
  /\ pc = "start"
  /\ stack = << >>
  /\ currentSlide = 0
  /\ texts = << >>
  /\ slideTexts = EmptyMap
  /\ images = << >>
  /\ thrown = NoThrow
  /\ outcome = "pending"
  /\ presentation = NoPresentation
  /\ obs = NoObs
  /\ AppIdle

(***************************************************************************)
(* parseRecords.  A frame is one invocation: its reader (off, len, pos),   *)
(* its endPos, iterations and depth, and recordEnd, the end of the record  *)
(* whose body it has passed to the invocation above it on the stack.       *)
(* encl is not in the code: the value the counter took when the innermost  *)
(* RT_Slide container around the invocation was entered (0: none).         *)
(***************************************************************************)
Frame(off, len, endPos, depth, encl) ==
  [off |-> off, len |-> len, pos |-> 0, endPos |-> endPos, iterations |-> 0,
   depth |-> depth, recordEnd |-> 0, encl |-> encl]

Top == stack[Len(stack)]

Data(f) == SubSeq(bytes, f.off + 1, f.off + f.len)

\* The three header reads of an iteration: the fields and the cursor after them.
Header(f) ==
  LET d == Data(f)
      r1 == readUInt16LE(d, f.pos)
      r2 == readUInt16LE(d, r1.pos)
      r3 == readUInt32LE(d, r2.pos)
  IN  [recVerInstance |-> r1.val, recVer |-> r1.val % 16, recType |-> r2.val,
       recLen |-> r3.val, pos |-> r3.pos]

\* if (recLen > 100000000 || reader.pos + recLen > endPos + 8)
Implausible(f, h) == h.recLen > MaxRecLen \/ h.pos + h.recLen > f.endPos + 8

\* iterations++
NextIterations(it) == it + 1

\* while (reader.pos + 8 <= endPos && iterations < maxIterations)
LoopGuardNoCap(f) == f.pos + 8 <= f.endPos

LoopGuardCapIncluded(f) == f.pos + 8 <= f.endPos /\ f.iterations <= maxIterations

LoopGuard(f) == f.pos + 8 <= f.endPos /\ f.iterations < maxIterations

\* The loop without the test of depth.
ActiveAtAnyDepth(f) == LoopGuard(f)

\* if (depth > maxDepth) return; then the loop
Active(f) == ~(f.depth > maxDepth) /\ LoopGuard(f)

\* reader.slice(reader.pos, recordEnd) and the recursive call's arguments
SubFrame(f, h, encl) ==
  LET a == Min(Max(h.pos, 0), f.len)
      b == Min(Max(h.pos + h.recLen, 0), f.len)
  IN  Frame(f.off + a, Max(b - a, 0), h.recLen, f.depth + 1, encl)

\* addToSlide that keeps no bucket for the text outside the slides.
addToSlideInSlides(m, slideNum, text) ==
  IF slideNum = 0 THEN m
  ELSE IF slideNum \in DOMAIN m THEN [m EXCEPT ![slideNum] = Append(@, text)]
  ELSE m @@ (slideNum :> << text >>)

addToSlide(m, slideNum, text) ==
  IF slideNum \in DOMAIN m THEN [m EXCEPT ![slideNum] = Append(@, text)]
  ELSE m @@ (slideNum :> << text >>)

TextTypes == {RT_TextCharsAtom, RT_TextBytesAtom, RT_CString}
BlipTypes == {OfficeArtBlipJPEG, OfficeArtBlipJPEG2, OfficeArtBlipPNG}

\* The cleaned text of a text atom.
AtomText(f, h) ==
  cleanText(IF h.recType = RT_TextBytesAtom
            THEN readWindows1252(Data(f), h.pos, h.recLen).str
            ELSE readUTF16LE(Data(f), h.pos, h.recLen).str)

\* The condition under which a text atom's cleaned text is pushed.
AtomAccepted(recType, cleaned) ==
  /\ cleaned # << >>
  /\ isValidText(cleaned)
  /\ (recType = RT_CString => ~isSystemString(cleaned))

\* "image_", ".jpg", ".png"
Str_ImagePrefix == << 105, 109, 97, 103, 101, 95 >>
Str_DotJpg == << 46, 106, 112, 103 >>
Str_DotPng == << 46, 112, 110, 103 >>

\* size: imgData.length
BlipSizeDeclared(imgData, recLen) == recLen - 17

BlipSize(imgData, recLen) == Len(imgData)

\* The blip cases: the images after the record.
BlipImages(f, h) ==
  IF h.recLen > 17
  THEN LET imgData == readBytes(Data(f), h.pos + 17, h.recLen - 17).bytes
           png == h.recType = OfficeArtBlipPNG
       IN  IF Len(imgData) > 100
           THEN Append(images,
                  [name |-> Str_ImagePrefix \o Decimal(Len(images) + 1)
                              \o (IF png THEN Str_DotPng ELSE Str_DotJpg),
                   type |-> IF png THEN "image/png" ELSE "image/jpeg",
                   size |-> BlipSize(imgData, h.recLen),
                   extension |-> IF png THEN "png" ELSE "jpg",
                   data |-> arrayToBase64(imgData)])
           ELSE images
  ELSE images

Observe(kind, f, h, newPos, bucket, accepted) ==
  [kind |-> kind, startPos |-> f.pos, hdrPos |-> h.pos, recType |-> h.recType,
   recLen |-> h.recLen, endPos |-> f.endPos, newPos |-> newPos, depth |-> f.depth,
   encl |-> f.encl, bucket |-> bucket, accepted |-> accepted,
   iterations |-> f.iterations]

SetTop(f) == [stack EXCEPT ![Len(stack)] = f]

Walking == pc = "walk" /\ stack # << >>

\* An implausible header: reader.seek(startPos + 1); continue
Resync ==
  /\ Walking /\ Active(Top)
  /\ LET f == Top
         h == Header(f)
         p == seek(f.len, f.pos + 1)
     IN  /\ Implausible(f, h)
         /\ stack' = SetTop([f EXCEPT !.pos = p, !.iterations = NextIterations(@)])
         /\ obs' = Observe("resync", f, h, p, currentSlide, FALSE)
  /\ UNCHANGED << currentSlide, texts, slideTexts, images >>
  /\ UNCHANGED << fileVars, pc, thrown, outcome, presentation >>
  /\ UNCHANGED appVars

\* RT_TextCharsAtom, RT_TextBytesAtom, RT_CString
TextAtom ==
  /\ Walking /\ Active(Top)
  /\ LET f == Top
         h == Header(f)
         cleaned == AtomText(f, h)
         ok == AtomAccepted(h.recType, cleaned)
         p == seek(f.len, h.pos + h.recLen)
     IN  /\ ~Implausible(f, h)
         /\ h.recType \in TextTypes
         /\ texts' = IF ok THEN Append(texts, cleaned) ELSE texts
         /\ slideTexts' = IF ok THEN addToSlide(slideTexts, currentSlide, cleaned)
                          ELSE slideTexts
         /\ stack' = SetTop([f EXCEPT !.pos = p, !.iterations = NextIterations(@)])
         /\ obs' = Observe("text", f, h, p, currentSlide, ok)
  /\ UNCHANGED << currentSlide, images >>
  /\ UNCHANGED << fileVars, pc, thrown, outcome, presentation >>
  /\ UNCHANGED appVars

\* RT_Slide: setCurrentSlide(getCurrentSlide() + 1), then the recursive call
EnterSlide ==
  /\ Walking /\ Active(Top)
  /\ LET f == Top
         h == Header(f)
     IN  /\ ~Implausible(f, h)
         /\ h.recType = RT_Slide
         /\ currentSlide' = currentSlide + 1
         /\ stack' = Append(SetTop([f EXCEPT !.pos = h.pos,
                                             !.iterations = NextIterations(@),
                                             !.recordEnd = h.pos + h.recLen]),
                            SubFrame(f, h, currentSlide + 1))
         /\ obs' = Observe("slide", f, h, h.pos, currentSlide + 1, FALSE)
  /\ UNCHANGED << texts, slideTexts, images >>
  /\ UNCHANGED << fileVars, pc, thrown, outcome, presentation >>
  /\ UNCHANGED appVars

\* OfficeArtBlipJPEG, OfficeArtBlipJPEG2, OfficeArtBlipPNG
Blip ==
  /\ Walking /\ Active(Top)
  /\ LET f == Top
         h == Header(f)
         p == seek(f.len, h.pos + h.recLen)
     IN  /\ ~Implausible(f, h)
         /\ h.recType \in BlipTypes
         /\ images' = BlipImages(f, h)
         /\ stack' = SetTop([f EXCEPT !.pos = p, !.iterations = NextIterations(@)])
         /\ obs' = Observe("blip", f, h, p, currentSlide, FALSE)
  /\ UNCHANGED << currentSlide, texts, slideTexts >>
  /\ UNCHANGED << fileVars, pc, thrown, outcome, presentation >>
  /\ UNCHANGED appVars

\* default: a container (recVer = 0xF or a type of CONTAINER_TYPES) is recursed into
IsContainer(h) == h.recVer = 15 \/ h.recType \in CONTAINER_TYPES

EnterContainer ==
  /\ Walking /\ Active(Top)
  /\ LET f == Top
         h == Header(f)
     IN  /\ ~Implausible(f, h)
         /\ h.recType \notin TextTypes \cup BlipTypes \cup {RT_Slide}
         /\ IsContainer(h)
         /\ stack' = Append(SetTop([f EXCEPT !.pos = h.pos,
                                             !.iterations = NextIterations(@),
                                             !.recordEnd = h.pos + h.recLen]),
                            SubFrame(f, h, f.encl))
         /\ obs' = Observe("container", f, h, h.pos, currentSlide, FALSE)
  /\ UNCHANGED << currentSlide, texts, slideTexts, images >>
  /\ UNCHANGED << fileVars, pc, thrown, outcome, presentation >>
  /\ UNCHANGED appVars

\* default: any other record is passed over
SkipRecord ==
  /\ Walking /\ Active(Top)
  /\ LET f == Top
         h == Header(f)
         p == seek(f.len, h.pos + h.recLen)
     IN  /\ ~Implausible(f, h)
         /\ h.recType \notin TextTypes \cup BlipTypes \cup {RT_Slide}
         /\ ~IsContainer(h)
         /\ stack' = SetTop([f EXCEPT !.pos = p, !.iterations = NextIterations(@)])
         /\ obs' = Observe("skip", f, h, p, currentSlide, FALSE)
  /\ UNCHANGED << currentSlide, texts, slideTexts, images >>
  /\ UNCHANGED << fileVars, pc, thrown, outcome, presentation >>
  /\ UNCHANGED appVars

\* The invocation ends (depth > maxDepth, or the loop condition fails): its
\* caller does reader.seek(recordEnd); the outermost one returns to parsePPT.
ReturnRecords ==
  /\ Walking /\ ~Active(Top)
  /\ IF Len(stack) = 1
     THEN /\ stack' = << >>
          /\ pc' = "assemble"
          /\ obs' = [NoObs EXCEPT !.kind = "return", !.iterations = Top.iterations]
     ELSE LET parent == stack[Len(stack) - 1]
              p == seek(parent.len, parent.recordEnd)
          IN  /\ stack' = [SubSeq(stack, 1, Len(stack) - 1) EXCEPT
                             ![Len(stack) - 1] = [parent EXCEPT !.pos = p]]
              /\ pc' = pc
              /\ obs' = [NoObs EXCEPT !.kind = "return", !.newPos = p,
                                      !.depth = parent.depth, !.encl = parent.encl,
                                      !.iterations = Top.iterations]
  /\ UNCHANGED << currentSlide, texts, slideTexts, images >>
  /\ UNCHANGED << fileVars, thrown, outcome, presentation >>
  /\ UNCHANGED appVars

(***************************************************************************)
(* The string scan the repository holds in its former parsePPT             *)
(* (extractTextFromBinary and its helpers).  The parsePPT above never      *)
(* calls it; it is modelled to say what a scan of the file would find.     *)
(***************************************************************************)
\* const minLength = 4
ScanMinLength == 4

\* (byte >= 32 && byte <= 126) || byte === 9 || byte === 10 || byte === 13
ScanAscii == (32..126) \cup {9, 10, 13}

\* ... || (charCode > 126 && charCode < 0xFFFF)
ScanUnicode == ScanAscii \cup (127..65534)

\* .replace(/\s+/g, ' ')
\* (Of a stretch of white space the last character stays, as a space.)
CollapseWhitespace(s) ==
  LET kept == {i \in 1..Len(s) :
                 ~IsWhitespace(s[i]) \/ i = Len(s) \/ ~IsWhitespace(s[i + 1])}
      at(j) == CHOOSE i \in kept : Cardinality({k \in kept : k <= i}) = j
  IN  [j \in 1..Cardinality(kept) |->
         IF IsWhitespace(s[at(j)]) THEN 32 ELSE s[at(j)]]

\* cleanText of the former parser
legacyCleanText(text) ==
  trim(CollapseWhitespace(
         [i \in 1..Len(text) |->
            IF InRange(text[i], 0, 31) \/ text[i] = 127 THEN 32 ELSE text[i]]))

\* The names of the anchored patterns of isGarbage, in lower case.
LegacyGarbageNames ==
  { << 114, 111, 111, 116, 32, 101, 110, 116, 114, 121 >>,
    << 112, 111, 119, 101, 114, 112, 111, 105, 110, 116, 32, 100, 111, 99, 117, 109, 101, 110, 116 >>,
    << 99, 117, 114, 114, 101, 110, 116, 32, 117, 115, 101, 114 >>,
    << 115, 117, 109, 109, 97, 114, 121, 105, 110, 102, 111, 114, 109, 97, 116, 105, 111, 110 >>,
    << 100, 111, 99, 117, 109, 101, 110, 116, 115, 117, 109, 109, 97, 114, 121, 105, 110, 102, 111, 114, 109, 97, 116, 105, 111, 110 >> }

IsHexDigit(c) == InRange(c, 48, 57) \/ InRange(c, 65, 70) \/ InRange(c, 97, 102)

\* isGarbage of the former parser
isGarbage(text) ==
  \/ (Len(text) >= 8 /\ \A i \in 1..Len(text) : IsHexDigit(text[i]))
  \/ AllInRange(text, 0, 31)
  \/ (text # << >> /\ AllIn(text, {95, 45, 46}))
  \/ FoldAscii(text) \in LegacyGarbageNames
  \/ (text # << >> /\ AllDigits(text))
  \/ (Len(text) = 1 /\ (InRange(text[1], 65, 90) \/ InRange(text[1], 97, 122)))
  \/ \A i \in 1..Len(text) : IsWhitespace(text[i])

\* One scanning loop: the runs of units in K of at least minLength units,
\* cleaned, that are no garbage.  A run that reaches the end of the data is
\* dropped, as in the loops.
\* (A run ends at a unit outside K, at position e; it starts after the unit
\* outside K before it.  Only the runs of minLength units or more count.)
ScanRuns(units, K) ==
  LET cur(e) ==
        LET s == CHOOSE s \in 1..(e - ScanMinLength) :
                   /\ \A k \in s..(e - 1) : units[k] \in K
                   /\ s = 1 \/ units[s - 1] \notin K
        IN  SubSeq(units, s, e - 1)
      ends == {e \in (ScanMinLength + 1)..Len(units) :
                 /\ units[e] \notin K
                 /\ \A k \in (e - ScanMinLength)..(e - 1) : units[k] \in K
                 /\ legacyCleanText(cur(e)) # << >>
                 /\ ~isGarbage(legacyCleanText(cur(e)))}
      at(j) == CHOOSE e \in ends : Cardinality({k \in ends : k <= e}) = j
  IN  [j \in 1..Cardinality(ends) |-> legacyCleanText(cur(at(j)))]

\* [...new Set(texts)]
RECURSIVE Unique(_, _)
Unique(ts, seen) ==
  IF ts = << >> THEN << >>
  ELSE IF Head(ts) \in seen THEN Unique(Tail(ts), seen)
  ELSE << Head(ts) >> \o Unique(Tail(ts), seen \cup {Head(ts)})

extractTextFromBinary(data) ==
  SelectSeq(Unique(ScanRuns(data, ScanAscii) \o ScanRuns(Units(data), ScanUnicode), {}),
            LAMBDA t : Len(t) >= ScanMinLength)

(***************************************************************************)
(* parsePPT.                                                               *)
(***************************************************************************)
\* The message of the Error that CFB.read throws on a file that is no
\* compound file (the library's own text; "CFB: not a compound file" here).
\* The library may also throw a value that is no Error.
Str_CFBError ==
  << 67, 70, 66, 58, 32, 110, 111, 116, 32, 97, 32, 99, 111, 109, 112, 111, 117,
     110, 100, 32, 102, 105, 108, 101 >>

\* One list and one counter for all the calls, instead of a new one per call.
SharedTexts(earlier) == earlier

SharedCounter(earlier) == earlier

\* parsePPTStream: every call makes its own result, { texts: [], images: [],
\* slideTexts: new Map() }, and its own counter, let currentSlide = 0.
NewTexts(earlier) == << >>

NewCounter(earlier) == 0

\* The try block up to the call of parsePPTStream: CFB.read throws, or the
\* stream is missing and the code throws, or the walk starts.
ParsePPT_Open ==
  /\ pc = "start" /\ fileType = "ppt"
  /\ IF container = "notCFB"
     THEN /\ thrown' = [raised |-> TRUE, isError |-> cfbError,
                        message |-> IF cfbError THEN Str_CFBError ELSE << >>]
          /\ pc' = "catch"
          /\ UNCHANGED << stack, currentSlide, texts, slideTexts, images >>
     ELSE IF container = "noStream"
     THEN /\ thrown' = [raised |-> TRUE, isError |-> TRUE, message |-> Str_StreamNotFound]
          /\ pc' = "catch"
          /\ UNCHANGED << stack, currentSlide, texts, slideTexts, images >>
     ELSE /\ thrown' = thrown
          /\ pc' = "walk"
          /\ stack' = << Frame(0, Len(bytes), Len(bytes), 0, 0) >>
          /\ currentSlide' = NewCounter(currentSlide)
          /\ texts' = NewTexts(texts)
          /\ slideTexts' = EmptyMap
          /\ images' = << >>
  /\ UNCHANGED << fileVars, obs, outcome, presentation >>
  /\ UNCHANGED appVars

\* error instanceof Error ? error.message : 'Unknown error'
ErrorMessage(e) == IF e.isError THEN e.message ELSE Str_UnknownError

\* The slides of the catch block.
CatchSlidesNone(e) == << >>

CatchSlidesScan(e) == createSlides(extractTextFromBinary(bytes), EmptyMap)

CatchSlides(e) == << NewSlide(1, Str_Error, << Str_FailedToParse, ErrorMessage(e) >>) >>

\* What the catch block does with the promise: it returns the error result.
CatchRethrows == "rejected"

CatchOutcome == "returned"

\* file.name: "deck.ppt"
FileName == << 100, 101, 99, 107, 46, 112, 112, 116 >>

\* ".ppt"
Str_DotPpt == << 46, 112, 112, 116 >>

\* file.name.replace(/\.ppt$/i, '')
FileTitle ==
  IF EndsWith(FoldAscii(FileName), Str_DotPpt)
  THEN SubSeq(FileName, 1, Len(FileName) - Len(Str_DotPpt)) ELSE FileName

\* "Microsoft PowerPoint", "Microsoft PowerPoint (Legacy)"
Str_MicrosoftPowerPoint == << 77, 105, 99, 114, 111, 115, 111, 102, 116, 32, 80, 111, 119, 101, 114, 80, 111, 105, 110, 116 >>
Str_MicrosoftPowerPointLegacy == << 77, 105, 99, 114, 111, 115, 111, 102, 116, 32, 80, 111, 119, 101, 114, 80, 111, 105, 110, 116, 32, 40, 76, 101, 103, 97, 99, 121, 41 >>

\* The metadata literal of parsePPT, in the try block and in the catch block
\* (the text fields that parsePropertyStream can set, and the counts).
DefaultMetadata(application) ==
  [title |-> FileTitle, subject |-> << >>, creator |-> << >>, keywords |-> << >>,
   description |-> << >>, lastModifiedBy |-> << >>, revision |-> << >>,
   application |-> application, totalSlides |-> 0, totalWords |-> 0]

\* The ExtractedPresentation of the catch block.
ErrorPresentation(e) ==
  [fileType |-> "ppt",
   metadata |-> [DefaultMetadata(Str_MicrosoftPowerPointLegacy) EXCEPT !.totalSlides = 1],
   slides |-> CatchSlides(e),
   media |-> << >>,
   customProperties |-> [parsedWith |-> "ppt-parser-v2", error |-> ErrorMessage(e)]]

\* metadata.totalSlides = slides.length
PPTTotalSlides(slides) == Len(slides)

\* metadata = { ...metadata, ...summaryMeta }
SummaryMetadata ==
  IF summary = NoSummary THEN DefaultMetadata(Str_MicrosoftPowerPoint)
  ELSE parsePropertyStream(summary) @@ DefaultMetadata(Str_MicrosoftPowerPoint)

\* The ExtractedPresentation of the try block.
ParsedPresentation(ts, buckets, imgs) ==
  LET slides == createSlides(ts, buckets)
  IN  [fileType |-> "ppt",
       metadata |-> [SummaryMetadata EXCEPT !.totalSlides = PPTTotalSlides(slides),
                                            !.totalWords = WordCount(slides)],
       slides |-> slides,
       media |-> imgs,
       customProperties |-> [parsedWith |-> "ppt-parser-v2"]]

\* After parsePPTStream: createSlides, the counts, return.
ParsePPT_Finish ==
  /\ pc = "assemble"
  /\ presentation' = ParsedPresentation(texts, slideTexts, images)
  /\ outcome' = "returned"
  /\ pc' = "done"
  /\ UNCHANGED << fileVars, walkVars, thrown >>
  /\ UNCHANGED appVars

\* catch (error): return the error result.
ParsePPT_Catch ==
  /\ pc = "catch"
  /\ outcome' = CatchOutcome
  /\ presentation' = IF CatchOutcome = "returned" THEN ErrorPresentation(thrown)
                     ELSE presentation
  /\ pc' = "done"
  /\ UNCHANGED << fileVars, walkVars, thrown >>
  /\ UNCHANGED appVars

\* The call has returned, and the buffer of one of the calls that wait at
\* await file.arrayBuffer() arrives: that call goes on, with its own file.
\* The variables of the walk keep what the call that has returned left.
ParsePPT_Await ==
  /\ pc = "done" /\ fileType = "ppt"
  /\ \E i \in 1..Len(pending) :
       /\ container' = pending[i].container
       /\ cfbError' = pending[i].cfbError
       /\ bytes' = pending[i].bytes
       /\ summary' = pending[i].summary
       /\ pending' = SubSeq(pending, 1, i - 1) \o SubSeq(pending, i + 1, Len(pending))
  /\ history' = Append(history, [file |-> ThisFile, outcome |-> outcome,
                                 presentation |-> presentation])
  /\ pc' = "start"
  /\ thrown' = NoThrow
  /\ outcome' = "pending"
  /\ presentation' = NoPresentation
  /\ obs' = NoObs
  /\ UNCHANGED << fileType, zip, stack, currentSlide, texts, slideTexts, images >>
  /\ UNCHANGED appVars

(***************************************************************************)
(* parsePPTX.                                                              *)
(***************************************************************************)
\* join(' ')
RECURSIVE JoinSpace(_)
JoinSpace(parts) ==
  IF parts = << >> THEN << >>
  ELSE IF Len(parts) = 1 THEN parts[1]
  ELSE parts[1] \o << 32 >> \o JoinSpace(Tail(parts))

\* The trimmed, non-empty texts of a list of a:t runs.
RunTexts(runs) ==
  SelectSeq([i \in 1..Len(runs) |-> trim(runs[i].text)], LAMBDA s : s # << >>)

\* parseSlideXml(xml, slideNumber): every a:t run is text content; the title
\* is the text of the title shape, or else the first text.
parseSlideXml(xml, slideNumber) ==
  LET textContent == RunTexts(xml)
      titleParts == RunTexts(SelectSeq(xml, LAMBDA r : r.inTitle))
      phTitle == JoinSpace(titleParts)
      title == IF phTitle = << >> /\ Len(textContent) > 0 THEN textContent[1]
               ELSE phTitle
  IN  [slideNumber |-> slideNumber, title |-> title, textContent |-> textContent,
       notes |-> << >>]

\* The number a slide of extractSlides carries.
SlideNumberOf(num, index) == num

\* extractSlides: the loop over the slide files sorted by num.
RECURSIVE SlidesOfFiles(_, _, _)
SlidesOfFiles(nums, z, slides) ==
  IF nums = << >> THEN slides
  ELSE LET num == Head(nums)
       IN  IF num \in z.blank THEN SlidesOfFiles(Tail(nums), z, slides)
           ELSE SlidesOfFiles(Tail(nums), z,
                  Append(slides,
                         parseSlideXml(SlideXml(num),
                                       SlideNumberOf(num, Len(slides) + 1))))

extractSlides(z) == SlidesOfFiles(SortedKeys(z.slideNums), z, << >>)

\* extractMetadata: the counts of app.xml, 0 without it.
extractMetadata(z) ==
  [totalSlides |-> IF z.app.present THEN z.app.slides ELSE 0,
   totalWords |-> IF z.app.present THEN z.app.words ELSE 0]

\* name.split('.').pop(): the part of the name after its last dot, the whole
\* name when it has no dot.
AfterLastDot(name) ==
  LET dots == {i \in 1..Len(name) : name[i] = 46}
  IN  IF dots = {} THEN name
      ELSE SubSeq(name, 1 + CHOOSE i \in dots : \A j \in dots : j <= i, Len(name))

\* The extension lists of extractMedia.
ImageExtensions ==
  { << 106, 112, 103 >>, << 106, 112, 101, 103 >>, << 112, 110, 103 >>, << 103, 105, 102 >>, << 98, 109, 112 >>, << 116, 105, 102, 102 >>, << 119, 101, 98, 112 >> }
VideoExtensions ==
  { << 109, 112, 52 >>, << 97, 118, 105 >>, << 109, 111, 118 >>, << 119, 109, 118 >>, << 119, 101, 98, 109 >> }
AudioExtensions ==
  { << 109, 112, 51 >>, << 119, 97, 118 >>, << 111, 103, 103 >>, << 119, 109, 97 >>, << 109, 52, 97 >> }

MediaType(extension) ==
  IF extension \in ImageExtensions THEN "image"
  ELSE IF extension \in VideoExtensions THEN "video"
  ELSE IF extension \in AudioExtensions THEN "audio"
  ELSE "unknown"

\* size: (await file.async('uint8array')).length
MediaSize(content) == Len(content)

\* extractMedia: one entry for each file of ppt/media.
extractMedia(z) ==
  [i \in 1..Len(z.media) |->
     LET extension == toLowerCase(AfterLastDot(z.media[i].name))
     IN  [name |-> z.media[i].name,
          type |-> MediaType(extension),
          size |-> MediaSize(z.media[i].content),
          extension |-> extension,
          data |-> arrayToBase64(z.media[i].content)]]

\* metadata: { ...metadata, totalSlides: slides.length }
PPTXTotalSlidesFromApp(metadata, slides) == metadata.totalSlides

PPTXTotalSlides(metadata, slides) == Len(slides)

\* await JSZip.loadAsync(file): a corrupt archive rejects, and parsePPTX with it.
ParsePPTX_Load ==
  /\ pc = "start" /\ fileType = "pptx"
  /\ IF zip.valid
     THEN /\ pc' = "extract"
          /\ outcome' = outcome
     ELSE /\ pc' = "done"
          /\ outcome' = "rejected"
  /\ UNCHANGED << fileVars, walkVars, thrown, presentation >>
  /\ UNCHANGED appVars

\* The extract* calls and the return.
ParsePPTX_Extract ==
  /\ pc = "extract"
  /\ LET metadata == extractMetadata(zip)
         slides == extractSlides(zip)
     IN  presentation' =
           [fileType |-> "pptx",
            metadata |-> [metadata EXCEPT !.totalSlides = PPTXTotalSlides(metadata, slides)],
            slides |-> slides,
            media |-> extractMedia(zip),
            customProperties |-> EmptyMap]
  /\ outcome' = "returned"
  /\ pc' = "done"
  /\ UNCHANGED << fileVars, walkVars, thrown >>
  /\ UNCHANGED appVars

(***************************************************************************)
(* The specification.                                                      *)
(***************************************************************************)
Next ==
  \/ ParsePPT_Open
  \/ Resync
  \/ TextAtom
  \/ EnterSlide
  \/ Blip
  \/ EnterContainer
  \/ SkipRecord
  \/ ReturnRecords
  \/ ParsePPT_Finish
  \/ ParsePPT_Catch
  \/ ParsePPT_Await
  \/ ParsePPTX_Load
  \/ ParsePPTX_Extract

Spec == Init /\ [][Next]_vars


(***************************************************************************)
(* Properties.                                                             *)
(***************************************************************************)
Returned == pc = "done" /\ outcome = "returned"

\* The texts a slide shows: its title and its text content.
ShownTexts(slides) ==
  UNION { {slides[i].title} \cup {slides[i].textContent[j] :
                                     j \in 1..Len(slides[i].textContent)} :
          i \in 1..Len(slides) }

\* C1: whatever the bytes of the file and whatever CFB.read makes of them,
\* parsePPT never rejects: until it is done it has a step to take (the walk
\* always has an invocation to run or to return from), and when it is done
\* it has returned a presentation of type ppt.
C1_ParsePPTNeverRejects ==
  fileType = "ppt" =>
    /\ outcome # "rejected"
    /\ pc \in {"start", "walk", "assemble", "catch", "done"}
    /\ pc = "walk" => stack # << >>
    /\ pc = "done" => outcome = "returned" /\ presentation.fileType = "ppt"

\* parsePPT has returned from its catch block for a file that is no compound file.
C1_Witness ==
  Returned /\ fileType = "ppt" /\ container = "notCFB" /\ thrown.raised

\* C2 (as stated): parsePPTX is total; for an archive JSZip cannot load it
\* returns a presentation with a diagnostic slide and does not reject.
C2_ParsePPTXTotal ==
  fileType = "pptx" /\ pc = "done" =>
    /\ outcome = "returned"
    /\ ~zip.valid => Len(presentation.slides) >= 1

\* C3 (as stated): every returned presentation has at least one slide.
C3_AtLeastOneSlide == Returned => Len(presentation.slides) >= 1

\* C4 (as stated): the slides are numbered 1, 2, ... in the order of the list.
C4_SlideNumbersContiguous ==
  Returned => \A i \in 1..Len(presentation.slides) :
                presentation.slides[i].slideNumber = i

\* C5: in every returned presentation, of parsePPT (try block and catch
\* block) and of parsePPTX, metadata.totalSlides is the length of slides.
C5_TotalSlidesIsLength ==
  Returned => presentation.metadata.totalSlides = Len(presentation.slides)

\* parsePPTX has returned for an archive whose app.xml states another count.
C5_Witness ==
  /\ Returned /\ fileType = "pptx" /\ zip.app.present
  /\ zip.app.slides # Len(presentation.slides)
  /\ Len(presentation.slides) > 0

\* The variant of the walk: the iteration counts of the invocations,
\* outermost first, with maxIterations + 1 where there is no invocation.
WalkRank(st) ==
  [d \in 1..(maxDepth + 2) |->
     IF d <= Len(st) THEN st[d].iterations ELSE maxIterations + 1]

\* a comes before b in the lexicographic order
LexLess(a, b) ==
  \E d \in DOMAIN a : a[d] < b[d] /\ \A e \in 1..(d - 1) : a[e] = b[e]

\* C6: the record walk ends on every stream.  No invocation of parseRecords
\* runs more than maxIterations iterations, the invocations never nest
\* deeper than maxDepth + 2, the walk always has an invocation to run or to
\* return from, and every step of the walk moves its variant up in a finite
\* order: the walk takes a bounded number of steps and then returns.
C6_WalkTerminates ==
  /\ [](pc = "walk" =>
          /\ stack # << >>
          /\ Len(stack) <= maxDepth + 2
          /\ \A i \in 1..Len(stack) : stack[i].iterations <= maxIterations)
  /\ [][pc = "walk" => LexLess(WalkRank(stack), WalkRank(stack'))]_vars

\* An invocation of parseRecords inside a container has returned because it
\* used up its maxIterations iterations.
C6_Witness ==
  /\ pc = "walk" /\ Len(stack) = 1 /\ obs.kind = "return"
  /\ obs.iterations = maxIterations

\* C7 (as stated): a record whose declared length is more than the bytes
\* that remain in the region after its header, or more than 100 MB, is not
\* dispatched: the cursor is put one byte after the start of its header.
C7_ImplausibleNotDispatched ==
  (/\ obs.kind \in {"resync", "text", "slide", "blip", "container", "skip"}
   /\ obs.recLen > MaxRecLen \/ obs.recLen > obs.endPos - (obs.startPos + 8))
  => obs.kind = "resync" /\ obs.newPos = obs.startPos + 1

\* C8 (as stated): a text accepted inside an RT_Slide container is put in
\* the bucket of the innermost RT_Slide container around it.
C8_InnermostSlideBucket ==
  obs.kind = "text" /\ obs.accepted /\ obs.encl > 0 => obs.bucket = obs.encl

C10_FailureIsErrorSlide ==
  pc = "done" /\ fileType = "ppt" =>
    /\ outcome = "returned"
    /\ thrown.raised =>
         /\ Len(presentation.slides) = 1
         /\ presentation.slides[1].title = Str_Error
         /\ presentation.slides[1].slideNumber = 1
         /\ "error" \in DOMAIN presentation.customProperties
         /\ presentation.customProperties.error = ErrorMessage(thrown)
         /\ presentation.media = << >>
    /\ ~thrown.raised => "error" \notin DOMAIN presentation.customProperties

\* parsePPT has returned after a throw of something that is no Error.
C10_Witness ==
  Returned /\ fileType = "ppt" /\ thrown.raised /\ ~thrown.isError

\* C11: when the PowerPoint Document stream is there and the walk accepts no
\* text, parsePPT returns one slide: number 1, title "No Content Found", and
\* the one content line "Could not extract text from this presentation.".
C11_NoContentSlide ==
  Returned /\ fileType = "ppt" /\ container = "ok" /\ texts = << >> =>
    /\ Len(presentation.slides) = 1
    /\ presentation.slides[1].slideNumber = 1
    /\ presentation.slides[1].title = Str_NoContentFound
    /\ presentation.slides[1].textContent = << Str_CouldNotExtract >>

\* parsePPT has returned for a stream in which the walk met a text atom and
\* accepted no text.
C11_Witness ==
  /\ Returned /\ fileType = "ppt" /\ container = "ok" /\ texts = << >>
  /\ \E i \in 1..(Len(bytes) - 3) :
       bytes[i + 2] + 256 * bytes[i + 3] \in TextTypes

\* atob: the bytes a base64 text stands for.
Base64Value(c) ==
  IF c >= 65 /\ c <= 90 THEN c - 65
  ELSE IF c >= 97 /\ c <= 122 THEN c - 71
  ELSE IF c >= 48 /\ c <= 57 THEN c + 4
  ELSE IF c = 43 THEN 62 ELSE IF c = 47 THEN 63 ELSE 0

base64Decode(s) ==
  LET groups == Len(s) \div 4
      pad == IF groups = 0 THEN 0
             ELSE IF s[4 * groups - 1] = 61 THEN 2
             ELSE IF s[4 * groups] = 61 THEN 1 ELSE 0
      byte(i) ==
        LET g == (i - 1) \div 3
            r == (i - 1) % 3
            a == Base64Value(s[4 * g + 1])
            b == Base64Value(s[4 * g + 2])
            c == Base64Value(s[4 * g + 3])
            d == Base64Value(s[4 * g + 4])
        IN  IF r = 0 THEN a * 4 + b \div 16
            ELSE IF r = 1 THEN (b % 16) * 16 + c \div 4
            ELSE (c % 4) * 64 + d
  IN  [i \in 1..(3 * groups - pad) |-> byte(i)]

\* C12: the size of every media entry, of the walk's image list and of every
\* returned presentation (PPT blips, PPTX media files), is the number of
\* bytes its data stands for.
C12_MediaSizeIsPayloadLength ==
  /\ \A i \in 1..Len(images) : Len(base64Decode(images[i].data)) = images[i].size
  /\ Returned =>
       \A i \in 1..Len(presentation.media) :
         Len(base64Decode(presentation.media[i].data)) = presentation.media[i].size

\* parsePPT has returned an image of a blip whose header declares more bytes
\* than the stream holds.
C12_Witness ==
  /\ Returned /\ fileType = "ppt" /\ Len(presentation.media) = 1
  /\ presentation.media[1].size + 17 + 8 = Len(bytes)
  /\ readUInt32LE(bytes, 4).val > Len(bytes) - 8

\* C13 (as stated): a blip record of type OfficeArtBlipEMF, OfficeArtBlipWMF
\* or OfficeArtBlipDIB whose payload after the 16-byte uid is longer than 100
\* bytes adds a media entry with the extension emf, wmf or bmp.
C13_MetafileBlipsExtracted ==
  (/\ obs.kind \in {"text", "slide", "blip", "container", "skip"}
   /\ obs.recType \in {OfficeArtBlipEMF, OfficeArtBlipWMF, OfficeArtBlipDIB}
   /\ obs.hdrPos + obs.recLen <= obs.endPos
   /\ obs.recLen - 16 > 100)
  => /\ Len(images) > 0
     /\ images[Len(images)].extension =
          (IF obs.recType = OfficeArtBlipEMF THEN "emf"
           ELSE IF obs.recType = OfficeArtBlipWMF THEN "wmf" ELSE "bmp")

\* C14 (as stated): the property-set decoder reads the number of property
\* sets at byte 24 and the offset of the first section at byte 44, so a
\* summary stream laid out that way whose property 4 is the VT_LPWSTR
\* "Alice" gives metadata.creator = "Alice".
C14_CreatorFromStandardLayout ==
  (/\ Returned /\ fileType = "ppt" /\ container = "ok"
   /\ summary = SummaryStream(24, T_Alice, T_Deck))
  => presentation.metadata.creator = T_Alice

\* C15 (as stated): in every presentation parsePPT or parsePPTX returns,
\* metadata.totalWords is the sum, over the slides, of the number of
\* whitespace-separated non-empty tokens in the title and in each string of
\* textContent.
C15_TotalWordsIsTokenCount ==
  Returned => presentation.metadata.totalWords = WordCount(presentation.slides)

\* C16 (as stated): the textContent of a PPTX slide holds the text runs of
\* the slide in document order with the title left out: a slide whose title
\* shape holds "Hello<n>" and whose body holds "World" has that title and
\* textContent = << "World" >>.
C16_TitleExcludedFromTextContent ==
  (Returned /\ fileType = "pptx")
    => \A i \in 1..Len(presentation.slides) :
         LET slide == presentation.slides[i]
         IN  /\ slide.title = T_Hello \o Decimal(slide.slideNumber)
             /\ slide.textContent = << T_World >>

(***************************************************************************)
(* cleanText on its own: a text drawn from the strings over the characters *)
(* cleanText treats differently, cleaned once and then cleaned again.      *)
(***************************************************************************)
\* a, space, tab, \r, \n, \x01 (a stripped control), U+00A0
CleanAlphabet == {97, 32, 9, 13, 10, 1, 160}

MaxCleanLen == 4

CleanInputs == UNION { [1..n -> CleanAlphabet] : n \in 0..MaxCleanLen }

CleanInit ==
  /\ fileType = "ppt"
  /\ container = "ok"
  /\ cfbError = TRUE
  /\ bytes \in CleanInputs
  /\ summary = NoSummary
  /\ zip = NoZip
  /\ pending = << >>
  /\ history = << >>
  /\ pc = "clean"
  /\ stack = << >>
  /\ currentSlide = 0
  /\ texts = << >>
  /\ slideTexts = EmptyMap
  /\ images = << >>
  /\ thrown = NoThrow
  /\ outcome = "pending"
  /\ presentation = NoPresentation
  /\ obs = NoObs
  /\ AppIdle

\* const cleaned = cleanText(text)
CleanTextOnce ==
  /\ pc = "clean"
  /\ texts' = << cleanText(bytes) >>
  /\ pc' = "cleaned"
  /\ UNCHANGED << fileVars, stack, currentSlide, slideTexts, images, thrown,
                  outcome, presentation, obs >>
  /\ UNCHANGED appVars

\* cleanText(cleaned)
CleanTextAgain ==
  /\ pc = "cleaned"
  /\ texts' = Append(texts, cleanText(texts[1]))
  /\ pc' = "cleanedTwice"
  /\ UNCHANGED << fileVars, stack, currentSlide, slideTexts, images, thrown,
                  outcome, presentation, obs >>
  /\ UNCHANGED appVars

CleanNext == CleanTextOnce \/ CleanTextAgain

CleanSpec == CleanInit /\ [][CleanNext]_vars

\* C17: cleanText is idempotent: cleaning a cleaned text gives the same text.
C17_CleanTextIdempotent ==
  pc = "cleanedTwice" => texts[2] = texts[1]

\* A text with a control character and white space around it that the first
\* cleaning changed into something non-empty, cleaned a second time.
C17_Witness ==
  /\ pc = "cleanedTwice"
  /\ 1 \in {bytes[i] : i \in 1..Len(bytes)}
  /\ texts[1] # bytes
  /\ texts[1] # << >>
  /\ texts[2] = texts[1]

\* The parsePPT calls that have returned, in the order of their return.
Completed ==
  history \o (IF Returned /\ fileType = "ppt"
              THEN << [file |-> ThisFile, outcome |-> outcome,
                       presentation |-> presentation] >>
              ELSE << >>)

\* C18: parsing is deterministic: two parsePPT calls on the same file return
\* presentations that are equal (the model's presentation holds neither id
\* nor extractedAt).
C18_ParsePPTDeterministic ==
  \A i, j \in 1..Len(Completed) :
    Completed[i].file = Completed[j].file
      => /\ Completed[i].outcome = Completed[j].outcome
         /\ Completed[i].presentation = Completed[j].presentation

\* The file with the texts "Q3 Results" and "Agenda" parsed twice in a row,
\* each time into one slide with the first text as title.
C18_Witness ==
  /\ Len(Completed) >= 2
  /\ Completed[1].file = Completed[2].file
  /\ Completed[1].file.bytes = BaseStreams[11]
  /\ Completed[1].file.container = "ok"
  /\ Len(Completed[2].presentation.slides) = 1
  /\ Completed[2].presentation.slides[1].title = T_Q3Results
  /\ Completed[2].presentation = Completed[1].presentation

\* C19: parsePPT calls share no mutable state.  A call that goes on after
\* its await while calls on other files have run since an earlier call on
\* the same file returns what that earlier call returned; when a walk
\* starts, the counter is 0 and the text list, the bucket map and the image
\* list are empty, whatever the calls before left; and no step changes what
\* a call has returned.
C19_NoSharedState ==
  /\ [](/\ \A i, j \in 1..Len(Completed) :
             (/\ i < j
              /\ Completed[i].file = Completed[j].file
              /\ \E k \in (i + 1)..(j - 1) : Completed[k].file # Completed[j].file)
               => Completed[i].presentation = Completed[j].presentation
        /\ (pc = "walk" /\ Len(stack) = 1 /\ Top.pos = 0 /\ Top.iterations = 0)
             => /\ currentSlide = 0
                /\ texts = << >>
                /\ slideTexts = EmptyMap
                /\ images = << >>)
  /\ [][\A i \in 1..Len(history) : Len(history') >= i /\ history'[i] = history[i]]_vars

\* The file with two slides parsed, then the file with the JPEG blip, then
\* the file with two slides again, with the same result as the first time.
C19_Witness ==
  /\ Len(Completed) = 3
  /\ Completed[1].file.bytes = BaseStreams[3]
  /\ Completed[2].file.bytes = BaseStreams[9]
  /\ Completed[3].file = Completed[1].file
  /\ Len(Completed[1].presentation.slides) = 2
  /\ Len(Completed[2].presentation.media) = 1
  /\ Completed[3].presentation = Completed[1].presentation

\* C20 (as stated): after an accepted record has been handled, the cursor of
\* the enclosing region is the end of the record's body, header start + 8 +
\* recLen.  (For a text atom, a blip and a record of another type the
\* iteration itself ends with reader.seek(recordEnd); obs holds its cursor.)
C20_CursorAtBodyEnd ==
  obs.kind \in {"text", "blip", "skip"}
    => obs.newPos = obs.startPos + 8 + obs.recLen

\* C21: the walk recurses to depth maxDepth at most.  No record is dispatched
\* in an invocation deeper than that, so the text inside maxDepth + 1
\* containers never reaches the slides, while the text that follows the
\* innermost container, inside maxDepth containers, does.
C21_DepthCap ==
  /\ obs.kind \in {"resync", "text", "slide", "blip", "container", "skip"}
       => obs.depth <= maxDepth
  /\ (Returned /\ fileType = "ppt" /\ container = "ok" /\ bytes = BaseStreams[10])
       => ShownTexts(presentation.slides) = {T_Bb}

\* The stream of maxDepth + 1 nested containers has been walked: the text
\* after the innermost container is the title of the one slide, and the
\* text inside it is not shown.
C21_Witness ==
  /\ Returned /\ fileType = "ppt" /\ container = "ok" /\ bytes = BaseStreams[10]
  /\ Len(presentation.slides) = 1
  /\ presentation.slides[1].title = T_Bb
  /\ T_Aa \notin ShownTexts(presentation.slides)


\* C22: one invocation of parseRecords reads maxIterations record headers
\* at most, the headers it answers by moving one byte on included.  An
\* invocation that has read maxIterations headers reads no other: its next
\* step is its return, whatever is left of its region, and the invocation
\* that called it goes on at the end of the record it had entered.
C22_IterationCap ==
  /\ [](/\ \A i \in 1..Len(stack) : stack[i].iterations <= maxIterations
        /\ obs.kind \in {"resync", "text", "slide", "blip", "container", "skip"}
             => obs.iterations < maxIterations
        /\ (Returned /\ fileType = "ppt" /\ container = "ok" /\ bytes = StuckThenText)
             => ShownTexts(presentation.slides) = {T_Bb})
  /\ [][(Walking /\ Top.iterations = maxIterations) =>
          /\ obs'.kind = "return"
          /\ Len(stack) > 1 =>
               /\ pc' = "walk"
               /\ Len(stack') = Len(stack) - 1
               /\ stack'[Len(stack')].pos =
                    Min(stack[Len(stack) - 1].recordEnd, stack[Len(stack) - 1].len)
               /\ stack'[Len(stack')].iterations = stack[Len(stack) - 1].iterations
               /\ stack'[Len(stack')].endPos = stack[Len(stack) - 1].endPos]_vars

\* The invocation for the body of the slide has stopped at maxIterations
\* with its region not used up, and the text that follows the document
\* container is the title of the one slide returned.
C22_Witness ==
  /\ Returned /\ fileType = "ppt" /\ container = "ok" /\ bytes = StuckThenText
  /\ Len(presentation.slides) = 1
  /\ presentation.slides[1].title = T_Bb


\* parsePPT has returned what it made of a finished walk.
WalkReturned == Returned /\ fileType = "ppt" /\ obs.kind = "return"

\* C23: when the walk has filled at least one bucket, the slides returned
\* are the buckets in ascending order of their keys, bucket 0 (the text met
\* before any RT_Slide) first: the i-th slide has number i, the first string
\* of the i-th bucket as title and the bucket's other strings, in their
\* order, as textContent.  A bucket holds its strings in the order of the
\* atoms: an accepted text is put at the end of the bucket of the slide
\* counter.
C23_OneSlidePerBucket ==
  /\ (WalkReturned /\ DOMAIN slideTexts # {}) =>
       LET keys == {k \in DOMAIN slideTexts : Len(slideTexts[k]) > 0}
           slides == presentation.slides
           rank(k) == 1 + Cardinality({j \in keys : j < k})
       IN  /\ Len(slides) = Cardinality(keys)
           /\ \A k \in keys :
                /\ slides[rank(k)].slideNumber = rank(k)
                /\ slides[rank(k)].title = slideTexts[k][1]
                /\ slides[rank(k)].textContent =
                     SubSeq(slideTexts[k], 2, Len(slideTexts[k]))
  /\ (obs.kind = "text" /\ obs.accepted) =>
       /\ obs.bucket \in DOMAIN slideTexts
       /\ slideTexts[obs.bucket][Len(slideTexts[obs.bucket])] = texts[Len(texts)]

\* A text before every slide and a slide of two texts: bucket 0 makes the
\* first slide, bucket 1 the second, whose textContent is its second text.
C23_Witness ==
  /\ WalkReturned /\ bytes = TextThenSlide
  /\ DOMAIN slideTexts = {0, 1}
  /\ Len(presentation.slides) = 2
  /\ presentation.slides[1].title = T_Aa
  /\ presentation.slides[2].title = T_Bb
  /\ presentation.slides[2].textContent = << T_Cc >>


(***************************************************************************)
(* createSlides on its own, without buckets: a list of texts as the walk   *)
(* stores them (trimmed, not empty), in which a text may come again in     *)
(* another case and may have TitleMaxLen characters or one less.           *)
(***************************************************************************)
MaxTexts == 9

\* The texts the i-th place of the list may hold: a word of its own, the
\* first place's word in upper case, and a long text of its own, of
\* TitleMaxLen characters at the odd places and one less at the even ones.
TextChoice(i, c) ==
  IF c = 1 THEN << 96 + i, 96 + i >>
  ELSE IF c = 2 THEN << 65, 65 >>
  ELSE [j \in 1..(TitleMaxLen - ((i + 1) % 2)) |-> 96 + i]

FallbackInit ==
  /\ fileType = "ppt"
  /\ container = "ok"
  /\ cfbError = TRUE
  /\ bytes = << >>
  /\ summary = NoSummary
  /\ zip = NoZip
  /\ pending = << >>
  /\ history = << >>
  /\ pc = "group"
  /\ stack = << >>
  /\ currentSlide = 0
  /\ \E n \in 0..MaxTexts :
       \E c \in [1..n -> 1..3] : texts = [i \in 1..n |-> TextChoice(i, c[i])]
  /\ slideTexts = EmptyMap
  /\ images = << >>
  /\ thrown = NoThrow
  /\ outcome = "pending"
  /\ presentation = NoPresentation
  /\ obs = NoObs
  /\ AppIdle

\* const slides = createSlides(texts, slideTexts)
CreateSlidesOfTexts ==
  /\ pc = "group"
  /\ presentation' = [NoPresentation EXCEPT !.slides = createSlides(texts, slideTexts)]
  /\ pc' = "grouped"
  /\ UNCHANGED << fileVars, walkVars, thrown, outcome >>
  /\ UNCHANGED appVars

FallbackNext == CreateSlidesOfTexts

FallbackSpec == FallbackInit /\ [][FallbackNext]_vars


\* The first occurrences among the texts compared without regard to case,
\* in their order.
FirstOccurrences(ts) ==
  LET kept == {i \in 1..Len(ts) :
                 \A j \in 1..(i - 1) : toLowerCase(ts[j]) # toLowerCase(ts[i])}
      at(r) == CHOOSE i \in kept : Cardinality({j \in kept : j < i}) = r - 1
  IN  [r \in 1..Cardinality(kept) |-> ts[at(r)]]

\* s without its k-th element.
Without(s, k) == SubSeq(s, 1, k - 1) \o SubSeq(s, k + 1, Len(s))

\* C24: with no bucket and at least one text, createSlides keeps the first
\* occurrence of each text, compared without regard to case, in order, and
\* cuts the list so kept into consecutive pieces, one for each slide.  The
\* title of a slide is the first text of its piece shorter than TitleMaxLen
\* characters and its textContent the other texts of the piece in order; a
\* piece with no such text gives the title "Slide n".  A piece ends with the
\* text that makes the sixth entry of textContent: no slide has more than
\* SlideContentLimit entries and every slide but the last has exactly that
\* many.
C24_FallbackGrouping ==
  (pc = "grouped" /\ texts # << >>) =>
    LET slides == presentation.slides
        unique == FirstOccurrences(texts)
        short(seg) == {k \in 1..Len(seg) : Len(seg[k]) < TitleMaxLen}
        size(i) == Len(slides[i].textContent)
                     + (IF slides[i].title = Str_Slide \o Decimal(i) THEN 0 ELSE 1)
        start(i) == SumSeq([j \in 1..(i - 1) |-> size(j)])
        piece(i) == SubSeq(unique, start(i) + 1, start(i) + size(i))
    IN  /\ SumSeq([i \in 1..Len(slides) |-> size(i)]) = Len(unique)
        /\ \A i \in 1..Len(slides) :
             LET seg == piece(i)
                 slide == slides[i]
             IN  /\ slide.slideNumber = i
                 /\ Len(seg) > 0
                 /\ Len(slide.textContent) <= SlideContentLimit
                 /\ i < Len(slides) =>
                      /\ Len(slide.textContent) = SlideContentLimit
                      /\ slide.textContent[SlideContentLimit] = seg[Len(seg)]
                 /\ IF short(seg) = {}
                    THEN /\ slide.title = Str_Slide \o Decimal(i)
                         /\ slide.textContent = seg
                    ELSE LET k == CHOOSE x \in short(seg) : \A y \in short(seg) : x <= y
                         IN  /\ slide.title = seg[k]
                             /\ slide.textContent = Without(seg, k)

\* A list whose first text comes again in upper case and is dropped, and
\* whose last text has TitleMaxLen characters: two slides, the first with a
\* title and SlideContentLimit entries, the second without a title.
C24_Witness ==
  /\ pc = "grouped" /\ Len(texts) >= 2
  /\ texts[1] = << 97, 97 >> /\ texts[2] = << 65, 65 >>
  /\ Len(FirstOccurrences(texts)) < Len(texts)
  /\ Len(presentation.slides) = 2
  /\ Len(presentation.slides[1].textContent) = SlideContentLimit
  /\ presentation.slides[2].title = Str_Slide \o Decimal(2)


\* C25 (as stated): no text stored for a text atom has two white-space
\* characters next to each other.
C25_WhitespaceCollapsed ==
  \A i \in 1..Len(texts) :
    \A k \in 1..(Len(texts[i]) - 1) :
      ~(IsWhitespace(texts[i][k]) /\ IsWhitespace(texts[i][k + 1]))


\* C26 (as stated): a text is accepted only if fewer than 20% of its
\* characters are of the high-Unicode class: in every text stored, five
\* times the number of such characters is less than the length.
C26_HighUnicodeBelowFifth ==
  \A i \in 1..Len(texts) :
    5 * Cardinality({k \in 1..Len(texts[i]) : IsHighUnicode(texts[i][k])})
      < Len(texts[i])


\* C27: parsePropertyStream changes only the fields of the properties it
\* decodes.  A field it does not set keeps the value of the metadata
\* literal of parsePPT (title: the file name without ".ppt"); a section with
\* no property sets no field; a property whose id names no field, or whose
\* type is neither VT_LPSTR nor VT_LPWSTR, sets no field, while a string
\* property beside them sets its own.
C27_OnlyDecodedFieldsChange ==
  (Returned /\ fileType = "ppt" /\ container = "ok") =>
    LET md == presentation.metadata
        literal == DefaultMetadata(Str_MicrosoftPowerPoint)
        fields == DOMAIN literal \ {"totalSlides", "totalWords"}
    IN  /\ DOMAIN md = DOMAIN literal
        /\ \A f \in fields :
             f \notin DOMAIN parsePropertyStream(summary) => md[f] = literal[f]
        /\ summary = NoProperties => \A f \in fields : md[f] = literal[f]
        /\ summary = MixedProperties =>
             /\ md.creator = T_Alice
             /\ \A f \in fields \ {"creator"} : md[f] = literal[f]

\* parsePPT has returned for a file whose summary stream holds a property
\* with an unknown id, a property that is not a string and the creator.
C27_Witness ==
  /\ Returned /\ fileType = "ppt" /\ container = "ok"
  /\ summary = MixedProperties
  /\ presentation.metadata.creator = T_Alice
  /\ presentation.metadata.title = FileTitle
  /\ presentation.metadata.subject = << >>


\* C28 (as stated): every iteration of the loop of parseRecords makes
\* progress: at the end of an iteration that handles its record without a
\* recursive call (a resync, a text atom, a blip, a skipped record) the
\* cursor is beyond the place where the iteration read its header, also in
\* a view that holds fewer bytes than the record around it declares.
C28_IterationProgress ==
  obs.kind \in {"resync", "text", "blip", "skip"} => obs.newPos > obs.startPos


\* b is a subsequence of t: its elements are elements of t at places that
\* go up.
IsSubsequence(b, t) ==
  \E f \in [1..Len(b) -> 1..Len(t)] :
    /\ \A i \in 1..Len(b) : t[f[i]] = b[i]
    /\ \A i \in 1..(Len(b) - 1) : f[i] < f[i + 1]

\* C29: at every point of the walk, and after it, result.texts and
\* result.slideTexts agree: the text list has as many strings as the
\* buckets together, no bucket is empty, each bucket is a subsequence of
\* the text list, and each key is a value the slide counter has taken (0, or
\* the count of an RT_Slide record entered).  So the bucket map is empty
\* exactly when the text list is, and when createSlides is called with a
\* text the bucket map has a bucket with a string: the slides come from the
\* buckets, not from the grouping of the text list.
C29_TextsAndBucketsAgree ==
  /\ Len(texts) = SumSeq([i \in 1..Len(SortedKeys(DOMAIN slideTexts)) |->
                            Len(slideTexts[SortedKeys(DOMAIN slideTexts)[i]])])
  /\ \A k \in DOMAIN slideTexts :
       /\ k \in 0..currentSlide
       /\ slideTexts[k] # << >>
       /\ IsSubsequence(slideTexts[k], texts)
  /\ (DOMAIN slideTexts = {}) <=> (texts = << >>)
  /\ (WalkReturned /\ texts # << >>) =>
       /\ presentation.slides = BucketSlides(SortedKeys(DOMAIN slideTexts), slideTexts, << >>)
       /\ Len(presentation.slides) = Cardinality(DOMAIN slideTexts)

\* In the middle of a walk: three texts stored, one in bucket 0 and two in
\* the bucket of the first slide.
C29_Witness ==
  /\ pc = "walk" /\ obs.kind = "text" /\ obs.accepted
  /\ Len(texts) = 3
  /\ DOMAIN slideTexts = {0, 1}
  /\ Len(slideTexts[1]) = 2
  /\ currentSlide = 1


(***************************************************************************)
(* AppContent: the list of files, the extracted presentations and the      *)
(* processFiles call that waits for parsePPT or parsePPTX.  A file is its  *)
(* name; a presentation is the fileName and the fileType the parser gave   *)
(* it.  An event handler, and the part of processFiles between two awaits, *)
(* runs as one step, and the handlers see the state of the last render.    *)
(***************************************************************************)
\* ".pptx"
Str_DotPptx == << 46, 112, 112, 116, 120 >>

\* "a.ppt", "b.PPTX", "c.ppt"
AppFileNames ==
  { << 97, 46, 112, 112, 116 >>, << 98, 46, 80, 80, 84, 88 >>, << 99, 46, 112, 112, 116 >> }

MaxSelected == 2

\* The lists of files a drop or a file dialog can hand over.
Selections ==
  UNION { {s \in [1..n -> AppFileNames] : \A i, j \in 1..n : i # j => s[i] # s[j]} :
          n \in 1..MaxSelected }

parserVars == << fileVars, pc, walkVars, thrown, outcome, presentation >>

AppInit ==
  /\ fileType = "ppt"
  /\ container = "ok"
  /\ cfbError = TRUE
  /\ bytes = << >>
  /\ summary = NoSummary
  /\ zip = NoZip
  /\ pending = << >>
  /\ history = << >>
  /\ pc = "app"
  /\ stack = << >>
  /\ currentSlide = 0
  /\ texts = << >>
  /\ slideTexts = EmptyMap
  /\ images = << >>
  /\ thrown = NoThrow
  /\ outcome = "pending"
  /\ presentation = NoPresentation
  /\ obs = NoObs
  /\ AppIdle

\* file.name.toLowerCase().endsWith('.pptx')
IsPPTX(name) == EndsWith(toLowerCase(name), Str_DotPptx)

\* extractedData.find(p => p.fileName === name)
Extracted(data, name) == \E i \in 1..Len(data) : data[i].fileName = name

\* The loop of processFiles from the k-th of newFiles up to its next await,
\* or to its end: the files found in the extractedData of the call are
\* passed over; for the first other file, setProcessingFile(file.name) and
\* setError(null); after the loop, setProcessingFile(null).  err is the
\* value of error before.
ProcessFilesFrom(newFiles, k, data, err) ==
  LET todo == {j \in k..Len(newFiles) : ~Extracted(data, newFiles[j])}
  IN  IF todo = {}
      THEN /\ processingFile' = << >>
           /\ error' = err
           /\ processFilesCall' = NoCall
      ELSE LET j == CHOOSE x \in todo : \A y \in todo : x <= y
           IN  /\ processingFile' = newFiles[j]
               /\ error' = << >>
               /\ processFilesCall' = [newFiles |-> newFiles, at |-> j,
                                       extractedData |-> data]

\* handleFilesSelected(selectedFiles), called by the DropZone, which takes
\* no click and no drop while processingFile is set.
HandleFilesSelected ==
  /\ pc = "app"
  /\ processingFile = << >>
  /\ \E selectedFiles \in Selections :
       LET newFiles == SelectSeq(selectedFiles,
                         LAMBDA f : \A i \in 1..Len(files) : files[i] # f)
       IN  IF Len(newFiles) > 0
           THEN /\ files' = files \o newFiles
                /\ ProcessFilesFrom(newFiles, 1, extractedData, error)
           ELSE UNCHANGED << files, processingFile, error, processFilesCall >>
  /\ UNCHANGED << extractedData, parserVars >>

\* The promise of parsePPTX or parsePPT is fulfilled:
\* setExtractedData(prev => [...prev, data]), then the loop goes on.
ParseFulfilled ==
  /\ pc = "app"
  /\ processFilesCall # NoCall
  /\ LET call == processFilesCall
         name == call.newFiles[call.at]
         data == [fileName |-> name,
                  fileType |-> IF IsPPTX(name) THEN "pptx" ELSE "ppt"]
     IN  /\ extractedData' = Append(extractedData, data)
         /\ ProcessFilesFrom(call.newFiles, call.at + 1, call.extractedData, error)
  /\ UNCHANGED << files, parserVars >>

\* The promise is rejected (parsePPTX on a file that is no archive; parsePPT
\* rejects on no file): setError(...), then the loop goes on.
ParseRejected ==
  /\ pc = "app"
  /\ processFilesCall # NoCall
  /\ LET call == processFilesCall
         name == call.newFiles[call.at]
     IN  /\ IsPPTX(name)
         /\ ProcessFilesFrom(call.newFiles, call.at + 1, call.extractedData, name)
  /\ UNCHANGED << files, extractedData, parserVars >>

\* handleRemoveFile(index): the button of the index-th row of the FileList.
HandleRemoveFile ==
  /\ pc = "app"
  /\ \E index \in 1..Len(files) :
       LET fileToRemove == files[index]
       IN  /\ files' = SubSeq(files, 1, index - 1) \o SubSeq(files, index + 1, Len(files))
           /\ extractedData' = SelectSeq(extractedData,
                                 LAMBDA p : p.fileName # fileToRemove)
  /\ UNCHANGED << processingFile, error, processFilesCall, parserVars >>

\* handleClearAll: the button shown while files.length > 0.
HandleClearAll ==
  /\ pc = "app"
  /\ Len(files) > 0
  /\ files' = << >>
  /\ extractedData' = << >>
  /\ error' = << >>
  /\ UNCHANGED << processingFile, processFilesCall, parserVars >>

AppNext ==
  \/ HandleFilesSelected
  \/ ParseFulfilled
  \/ ParseRejected
  \/ HandleRemoveFile
  \/ HandleClearAll

AppSpec == AppInit /\ [][AppNext]_vars

\* C30 (as stated): in every state the App reaches by choosing files,
\* removing a file, clearing the list and the completion of a parse, every
\* presentation of extractedData has the fileName of a file of files.
C30_ExtractedDataOfListedFiles ==
  \A i \in 1..Len(extractedData) :
    \E j \in 1..Len(files) : files[j] = extractedData[i].fileName

=============================================================================
